---- MODULE Spec2Model ----
(***************************************************************************)
(* WISPER ORACLES post-processing: the Picarro-2 calibration script        *)
(* (apply_cal+QC/scripts/pic2_fullcal.py), the Pic1 full calibration used  *)
(* by the uncertainty estimation (apply_cal+QC/uncertainty_estimation.py)  *)
(* and the level-3 loaders (level3_products/getdata.py, wisperaddvars.py). *)
(*                                                                         *)
(* Numbers.  The code computes with IEEE doubles.  The model computes with *)
(* integers extended by NaN, +inf and -inf, with the IEEE rules for the    *)
(* special values.  np.log is its integer part (ILn); a non-integer        *)
(* exponent is a rational <<n, 2>> and x^(n/2) is the integer part of the  *)
(* square root of x^n.  IEEE rounding of finite results is not modelled.   *)
(***************************************************************************)
EXTENDS Integers, Sequences, FiniteSets, TLC

(***************************************************************************)
(* Bounds of the model.                                                    *)
(***************************************************************************)
\* Rows of a flight file (at least one more than the smoothing window).
NRows == 11

(***************************************************************************)
(* Program constants.                                                      *)
(***************************************************************************)
\* The missing-value flag of the .ict files.
Sentinel == -9999
\* Reference humidity (ppmv) of the humidity-dependence formula.
QRef == 50000
\* Window of the moving average applied before the cross-calibration.
Window == 10

(***************************************************************************)
(* Floating-point values: a finite number, NaN, or an infinity.            *)
(***************************************************************************)
Fin(n) == [t |-> "fin", v |-> n]
NaN == [t |-> "nan", v |-> 0]
PosInf == [t |-> "inf", v |-> 1]
NegInf == [t |-> "inf", v |-> -1]

IsFin(x) == x.t = "fin"
IsNaN(x) == x.t = "nan"
IsInf(x) == x.t = "inf"

Neg(x) == [x EXCEPT !.v = 0 - @]

Add(x, y) ==
    IF IsNaN(x) \/ IsNaN(y) THEN NaN
    ELSE IF IsInf(x) /\ IsInf(y) THEN (IF x.v = y.v THEN x ELSE NaN)
    ELSE IF IsInf(x) THEN x
    ELSE IF IsInf(y) THEN y
    ELSE Fin(x.v + y.v)

Sub(x, y) == Add(x, Neg(y))

Mul(x, y) ==
    IF IsNaN(x) \/ IsNaN(y) THEN NaN
    ELSE IF IsInf(x) \/ IsInf(y)
         THEN (IF x.v = 0 \/ y.v = 0 THEN NaN
               ELSE IF (x.v > 0) = (y.v > 0) THEN PosInf ELSE NegInf)
    ELSE Fin(x.v * y.v)

RECURSIVE IPow(_, _)
IPow(x, n) == IF n = 0 THEN 1 ELSE x * IPow(x, n - 1)

RECURSIVE ISqrtFrom(_, _)
ISqrtFrom(n, r) == IF (r + 1) * (r + 1) > n THEN r ELSE ISqrtFrom(n, r + 1)

\* x ** b for a positive exponent b = <<n, d>> (d = 1: the integer n; d = 2: n/2,
\* n odd) or b = <<0, 1>>.  pow(x, 0) is 1 for every x, NaN included; a negative base
\* with a non-integer exponent is NaN.
Pow(x, b) ==
    IF b[1] = 0 THEN Fin(1)
    ELSE IF IsNaN(x) THEN NaN
    ELSE IF IsInf(x)
         THEN (IF x.v < 0 /\ b[2] = 1 /\ b[1] % 2 = 1 THEN NegInf ELSE PosInf)
    ELSE IF b[2] = 1 THEN Fin(IPow(x.v, b[1]))
    ELSE IF x.v < 0 THEN NaN
    ELSE Fin(ISqrtFrom(IPow(x.v, b[1]), 0))

\* Integer part of the natural logarithm of n >= 1 (e as 2718/1000).
RECURSIVE ILn(_)
ILn(n) == IF n < 3 THEN 0 ELSE 1 + ILn((n * 1000) \div 2718)

\* np.log: NaN below 0 (and for NaN), -inf at 0.
Ln(x) ==
    IF IsNaN(x) THEN NaN
    ELSE IF IsInf(x) THEN (IF x.v > 0 THEN PosInf ELSE NaN)
    ELSE IF x.v < 0 THEN NaN
    ELSE IF x.v = 0 THEN NegInf
    ELSE Fin(ILn(x.v))

\* Series.isnull(): NaN is null, an infinity is not.
IsNull(x) == IsNaN(x)

(***************************************************************************)
(* pic2_cal16: the correction formulas.                                    *)
(***************************************************************************)
qdep_correction(logq, a, b) == Mul(a, Pow(Sub(Ln(Fin(QRef)), logq), b))

\* Mutant: the correction added instead of subtracted.
q_dep_cal_added(deltaval, qval, a, b) ==
    Add(deltaval, qdep_correction(Ln(qval), a, b))

q_dep_cal(deltaval, qval, a, b) == Sub(deltaval, qdep_correction(Ln(qval), a, b))

\* Mutant: the offset added before the slope is applied.
abscal_line_offset_first(x, m, k) == Mul(m, Add(x, k))

abscal_line(x, m, k) == Add(Mul(m, x), k)

(***************************************************************************)
(* pic2_cal1718: the cross-calibration formulas and the smoothing.         *)
(***************************************************************************)
xcal_h2o(q, p) == Mul(p["h2o_tot2"], q)

xcal_dD(logq, dD, p) ==
    Add(Add(Add(Add(Add(Add(Add(Add(Add(
        Mul(p["logq^3"], Pow(logq, <<3, 1>>)),
        Mul(p["logq^2"], Pow(logq, <<2, 1>>))),
        Mul(p["logq^1"], Pow(logq, <<1, 1>>))),
        Mul(p["dD^1"], Pow(dD, <<1, 1>>))),
        Mul(p["dD^2"], Pow(dD, <<2, 1>>))),
        Mul(p["dD^3"], Pow(dD, <<3, 1>>))),
        Mul(p["(dD*logq)^1"], Pow(Mul(dD, logq), <<1, 1>>))),
        Mul(p["(dD*logq)^2"], Pow(Mul(dD, logq), <<2, 1>>))),
        Mul(p["(dD*logq)^3"], Pow(Mul(dD, logq), <<3, 1>>))),
        p["const"])

\* Mutant: the second sign changes the sign of the coefficient.
UPlus_negated(x) == Neg(x)

\* The unary + of `+ + p['d18O^3']`: a float is returned as it is.
UPlus(x) == x

xcal_d18O(logq, d18O, p) ==
    Add(Add(Add(Add(Add(Add(Add(Add(Add(
        Mul(p["logq^3"], Pow(logq, <<3, 1>>)),
        Mul(p["logq^2"], Pow(logq, <<2, 1>>))),
        Mul(p["logq^1"], Pow(logq, <<1, 1>>))),
        Mul(p["d18O^1"], Pow(d18O, <<1, 1>>))),
        Mul(p["d18O^2"], Pow(d18O, <<2, 1>>))),
        Mul(UPlus(p["d18O^3"]), Pow(d18O, <<3, 1>>))),
        Mul(p["(d18O*logq)^1"], Pow(Mul(d18O, logq), <<1, 1>>))),
        Mul(p["(d18O*logq)^2"], Pow(Mul(d18O, logq), <<2, 1>>))),
        Mul(p["(d18O*logq)^3"], Pow(Mul(d18O, logq), <<3, 1>>))),
        p["const"])

RECURSIVE SumSeq(_)
SumSeq(w) == IF w = <<>> THEN Fin(0) ELSE Add(w[1], SumSeq(Tail(w)))

\* The mean of one full window; a window holding a missing value has fewer than
\* min_periods (= window) observations and gives NaN. The quotient is the integer
\* quotient (exact on the flight values of the model, multiples of the window).
WindowMean(w) ==
    IF \E j \in 1..Len(w) : IsNull(w[j]) THEN NaN
    ELSE LET s == SumSeq(w) IN IF IsFin(s) THEN Fin(s.v \div Len(w)) ELSE s

\* Mutant: min_periods=1, the first rows averaged over the rows there are.
RollingMean_partial(s) ==
    [i \in 1..Len(s) |->
        WindowMean(SubSeq(s, IF i < Window THEN 1 ELSE i - Window + 1, i))]

\* Mutant: the window of row i ends at row i - 1.
RollingMean_lagged(s) ==
    [i \in 1..Len(s) |->
        IF i <= Window THEN NaN ELSE WindowMean(SubSeq(s, i - Window, i - 1))]

\* Series.rolling(window=10).mean(), rows numbered from 1.
RollingMean(s) ==
    [i \in 1..Len(s) |->
        IF i < Window THEN NaN ELSE WindowMean(SubSeq(s, i - Window + 1, i))]

\* np.log of a column.
LogCol(col) == [i \in 1..Len(col) |-> Ln(col[i])]

(***************************************************************************)
(* Parameter sets.  The empirical coefficients are real numbers; the model *)
(* replaces each by a small integer (an exponent by a rational <<n, 2>>)   *)
(* of the same sign, keeping non-integer exponents non-integer and every   *)
(* slope different from 0 and 1.                                           *)
(***************************************************************************)
\* The fudge factor added to k18O for Mako (3.5 in the code).
ff == 4

\* Mutant: the fudge factor is added to kD as well.
MakoParams_ff_on_kD ==
    [bound |-> TRUE,
     aD |-> Fin(-2), bD |-> <<7, 2>>, a18O |-> Fin(-1), b18O |-> <<9, 2>>,
     mD |-> Fin(2), kD |-> Add(Fin(-6), Fin(ff)), m18O |-> Fin(3),
     k18O |-> Add(Fin(-1), Fin(ff)),
     mq |-> Fin(5), kq |-> Fin(0)]

MakoParams ==
    [bound |-> TRUE,
     aD |-> Fin(-2), bD |-> <<7, 2>>, a18O |-> Fin(-1), b18O |-> <<9, 2>>,
     mD |-> Fin(2), kD |-> Fin(-6), m18O |-> Fin(3), k18O |-> Add(Fin(-1), Fin(ff)),
     mq |-> Fin(5), kq |-> Fin(0)]

\* Histogram peaks of the MBL isotope ratios (permil), from which the Gulper
\* offsets are derived.
pD_M == -75
pD_G == -94
p18O_M == -12
p18O_G == -17

GulperParams ==
    LET mD == Fin(3)
        m18O == Fin(2)
    IN [bound |-> TRUE,
        aD |-> Fin(1), bD |-> <<9, 2>>, a18O |-> Fin(2), b18O |-> <<3, 2>>,
        mD |-> mD, kD |-> Sub(Fin(pD_M), Mul(mD, Fin(pD_G))),
        m18O |-> m18O, k18O |-> Sub(Fin(p18O_M), Mul(m18O, Fin(p18O_G))),
        mq |-> Fin(7), kq |-> Fin(0)]

\* The local names aD .. kq of pic2_cal16 before any assignment.
Unbound == [bound |-> FALSE]

\* Lines 178-203: the parameters are assigned only for the two known instruments.
Params16(pic) ==
    IF pic = "Mako" THEN MakoParams
    ELSE IF pic = "Gulper" THEN GulperParams
    ELSE Unbound

\* The cross-calibration sheets of calibration_fits.xlsx, indexed by year (the
\* workbook is data outside the repository: two years of stand-in coefficients).
XcalYears == {2017, 2018}

params_h2o == [y \in XcalYears |-> [h2o_tot2 |-> Fin(IF y = 2017 THEN 2 ELSE 3)]]

params_dD ==
    [y \in XcalYears |->
        ("logq^3" :> Fin(0)) @@ ("logq^2" :> Fin(1)) @@ ("logq^1" :> Fin(-2))
        @@ ("dD^1" :> Fin(IF y = 2017 THEN 2 ELSE 1)) @@ ("dD^2" :> Fin(0))
        @@ ("dD^3" :> Fin(1))
        @@ ("(dD*logq)^1" :> Fin(1)) @@ ("(dD*logq)^2" :> Fin(-1))
        @@ ("(dD*logq)^3" :> Fin(1)) @@ ("const" :> Fin(5))]

params_d18O ==
    [y \in XcalYears |->
        ("logq^3" :> Fin(1)) @@ ("logq^2" :> Fin(0)) @@ ("logq^1" :> Fin(3))
        @@ ("d18O^1" :> Fin(IF y = 2017 THEN 1 ELSE 2)) @@ ("d18O^2" :> Fin(-1))
        @@ ("d18O^3" :> Fin(0))
        @@ ("(d18O*logq)^1" :> Fin(-1)) @@ ("(d18O*logq)^2" :> Fin(1))
        @@ ("(d18O*logq)^3" :> Fin(1)) @@ ("const" :> Fin(-7))]

(***************************************************************************)
(* Flight files.  A file is a table of NRows rows, held column by column;  *)
(* its cells are the numbers written in the file (-9999 where a value is   *)
(* missing).  Isotope values are multiples of the smoothing window.        *)
(***************************************************************************)
\* Dates given to one call (the lists of the script hold 4 to 11 dates).
MaxDates == 2

D(y, n) == [year |-> y, n |-> n]

HumGrid == <<1500, 6000, 22000>>

BaseFile ==
    [Start_UTC |-> [i \in 1..NRows |-> Fin(i)],
     h2o_tot1  |-> [i \in 1..NRows |-> Fin(HumGrid[(i % 3) + 1])],
     dD_tot1   |-> [i \in 1..NRows |-> Fin(-10 * (((i + 2) % 6) + 1))],
     d18O_tot1 |-> [i \in 1..NRows |-> Fin(-10 * (((i + 1) % 3) + 1))],
     h2o_tot2  |-> [i \in 1..NRows |-> Fin(HumGrid[((i + 1) % 3) + 1])],
     dD_tot2   |-> [i \in 1..NRows |-> Fin(-10 * ((i % 6) + 1))],
     d18O_tot2 |-> [i \in 1..NRows |-> Fin(-10 * ((i % 3) + 1))]]

Put(f, c, r, x) == [f EXCEPT ![c][r] = x]

\* Rows at which a file of the model departs from BaseFile.
VarRows == {1, 5, NRows}

\* Humidities outside the domain of the humidity-dependence formula.
BadHum == {0, -5, 100000}

FileVariants ==
    {BaseFile}
    \cup {Put(BaseFile, c, r, Fin(Sentinel)) :
            c \in {"h2o_tot2", "dD_tot2", "d18O_tot2", "h2o_tot1", "dD_tot1"},
            r \in VarRows}
    \cup {Put(BaseFile, "h2o_tot2", r, Fin(q)) : r \in VarRows, q \in BadHum}
    \cup {[BaseFile EXCEPT !.h2o_tot2 = [i \in 1..NRows |-> Fin(Sentinel)]]}

NoData == <<>>
Absent == [exists |-> FALSE, cols |-> NoData]
File(cols) == [exists |-> TRUE, cols |-> cols]

\* The input stores the model starts from: any file for the first date of a list,
\* a clean or a missing file for the others.
Stores(dates) ==
    LET S == {dates[i] : i \in 1..Len(dates)}
        AnyFile == {Absent} \cup {File(f) : f \in FileVariants}
    IN {st \in [S -> AnyFile] :
          \A i \in 2..Len(dates) : st[dates[i]] \in {Absent, File(BaseFile)}}

\* The calibrated files the level-3 loaders read. A 2016 file holds the Pic2
\* columns; a 2017 or 2018 file holds both instruments and the cloud variables.
CloudKeys == {"h2o_cld", "dD_cld", "d18O_cld", "cvi_enhance"}

BaseFileL3(y) ==
    IF y = 2016
    THEN [c \in {"Start_UTC", "h2o_tot2", "dD_tot2", "d18O_tot2"} |-> BaseFile[c]]
    ELSE [c \in DOMAIN BaseFile \cup CloudKeys |->
            IF c \in DOMAIN BaseFile THEN BaseFile[c]
            ELSE IF c = "h2o_cld" THEN [i \in 1..NRows |-> Fin(100 * i)]
            ELSE IF c = "dD_cld" THEN [i \in 1..NRows |-> Fin(-50 - i)]
            ELSE IF c = "d18O_cld" THEN [i \in 1..NRows |-> Fin(-5 - i)]
            ELSE [i \in 1..NRows |-> Fin(20)]]

FileVariantsL3(y) ==
    LET base == BaseFileL3(y)
        flagged == {"h2o_tot1", "dD_tot1", "d18O_tot1", "h2o_tot2", "dD_tot2",
                    "h2o_cld"} \cap DOMAIN base
    IN {base}
       \cup {Put(base, c, r, Fin(Sentinel)) : c \in flagged, r \in VarRows}
       \cup (IF y = 2016 THEN {}
             ELSE {Put(Put(base, "h2o_tot1", r, Fin(Sentinel)),
                       "h2o_tot2", r, Fin(Sentinel)) : r \in VarRows})

StoresL3(d) ==
    {[x \in {d} |-> f] : f \in {Absent} \cup {File(c) : c \in FileVariantsL3(d.year)}}

\* The P3 merge files: the time Start_UTC and the ancillary variables, each a
\* function of the time. The times of a merge file are those of the WISPER file,
\* a part of them, times partly later than the flight, or times apart from it.
MergeTimes ==
    {[i \in 1..NRows |-> i], <<2, 4, 6, 8>>, <<NRows, NRows + 1, NRows + 2>>, <<50, 51>>}

MergeFile(times, y) ==
    [c \in {"Start_UTC", IF y = 2018 THEN "GPS_Altitude" ELSE "MSL_GPS_Altitude",
            "Latitude", "Longitude", "Static_Air_Temp", "Static_Pressure"} |->
        [i \in 1..Len(times) |->
            IF c = "Start_UTC" THEN Fin(times[i])
            ELSE IF c = "Latitude" THEN Fin(-10 - times[i])
            ELSE IF c = "Longitude" THEN Fin(times[i] % 7)
            ELSE IF c = "Static_Air_Temp" THEN Fin(20 - times[i])
            ELSE IF c = "Static_Pressure" THEN Fin(5 + (times[i] % 5))
            ELSE Fin(1000 + times[i])]]

MergeVariants(y) ==
    {MergeFile(t, y) : t \in MergeTimes}
    \cup {Put(MergeFile([i \in 1..NRows |-> i], y), "Static_Air_Temp", 1, Fin(Sentinel))}

StoresMerge(d) ==
    {[x \in {d} |-> f] : f \in {Absent} \cup {File(c) : c \in MergeVariants(d.year)}}

\* pd.read_csv of an existing file.
read_csv(file) == file.cols

\* data.to_csv(path): the frame's columns behind a first, unnamed column that
\* holds the index 0, 1, ... of the rows.
to_csv(frame) ==
    [c \in DOMAIN frame \cup {""} |->
        IF c = "" THEN [i \in 1..Len(frame.Start_UTC) |-> Fin(i - 1)] ELSE frame[c]]

\* Mutant: the flag is left in the frame.
replace_none(cols) == cols

\* Mutant: the flag is replaced in the isotope columns only.
replace_isotopes_only(cols) ==
    [c \in DOMAIN cols |->
        [i \in 1..Len(cols[c]) |->
            IF cols[c][i] = Fin(Sentinel)
               /\ c \in {"dD_tot1", "d18O_tot1", "dD_tot2", "d18O_tot2"}
            THEN NaN ELSE cols[c][i]]]

\* data.replace(-9999, np.nan): every cell equal to the flag, in every column.
replace(cols) ==
    [c \in DOMAIN cols |->
        [i \in 1..Len(cols[c]) |->
            IF cols[c][i] = Fin(Sentinel) THEN NaN ELSE cols[c][i]]]

(***************************************************************************)
(* The program state.                                                      *)
(***************************************************************************)
VARIABLES
    calls,          \* the calls the run makes, in order
    ci,             \* the call being executed
    pc,             \* the statement about to be executed
    di,             \* position of `date` in the dates of the call
    env,            \* pic2_cal16: the locals aD .. kq
    data,           \* the local DataFrame `data`
    h2o_corrected,  \* pic2_cal1718: locals
    dD_corrected,
    d18O_corrected,
    files,          \* the input directory the call reads, by date
    out,            \* the output directory path_pic2cal_dir, by date
    err,            \* the exception that ended the run, if any
    ret,            \* the value returned by a call of a function
    wisper,         \* wisper, wisperdata: the local DataFrame `wisper`
    wisper_new,     \* wisper, wisperdata: the local DataFrame `wisper_new`
    merged_pd,      \* wisperaddvars: the local DataFrame `merged_pd`
    wisper_addvars, \* wisperaddvars: the local DataFrame `wisper_addvars`
    trials,         \* mc_normalsampler: the realizations drawn so far
    mergefiles      \* the directory of the P3 merge files, by date

vars == <<calls, ci, pc, di, env, data, h2o_corrected, dD_corrected,
          d18O_corrected, files, out, err, ret, wisper, wisper_new,
          merged_pd, wisper_addvars, trials, mergefiles>>

cur == calls[ci]
date == cur.dates[di]

DateList(y, first, n) == [i \in 1..n |-> D(y, first + i - 1)]

Call16(dates, pic) == [fn |-> "pic2_cal16", dates |-> dates, pic |-> pic]
Call1718(year, dates, testplots) ==
    [fn |-> "pic2_cal1718", year |-> year, dates |-> dates, testplots |-> testplots]

\* The script as written: the Mako flights, then the Gulper flights.
Script(n) ==
    <<Call16(DateList(2016, 1, n), "Mako"), Call16(DateList(2016, 11, 1), "Gulper")>>

\* Arguments of the calls of the pure functions.
Deltas == {Fin(-70), Fin(0), Fin(30), NaN}
Humidities == {Fin(1500), Fin(22000), Fin(QRef), Fin(100000), Fin(0), Fin(-5), NaN}
Coeffs == {Fin(-2), Fin(0), Fin(3)}
Exponents == {<<0, 1>>, <<1, 1>>, <<3, 1>>, <<3, 2>>}
Slopes == {Fin(-1), Fin(0), Fin(2)}
Offsets == {Fin(-6), Fin(4)}

Programs ==
    {Script(n) : n \in 1..MaxDates}
    \cup {<<Call16(DateList(2016, 1, n), pic)>> :
            n \in 0..MaxDates, pic \in {"Mako", "Gulper", "Shark"}}
    \cup {<<Call1718(y, DateList(2017, 1, n), tp)>> :
            n \in 0..MaxDates, y \in {2016, 2017, 2018}, tp \in BOOLEAN}
    \cup {<<[fn |-> "q_dep_cal", d |-> d, q |-> q, a |-> a, b |-> b]>> :
            d \in Deltas, q \in Humidities, a \in Coeffs, b \in Exponents}
    \cup {<<[fn |-> "pic1_isoratio_fullcal", d |-> d, q |-> q,
             calparams |-> <<a, b, m, k>>]>> :
            d \in Deltas, q \in Humidities, a \in Coeffs, b \in Exponents,
            m \in Slopes, k \in Offsets}

\* The same call made twice, on the same input directory.
Reruns ==
    {<<c, c>> : c \in {Call16(DateList(2016, 1, 1), pic) : pic \in {"Mako", "Gulper"}}
                      \cup {Call1718(2017, DateList(2017, 1, 1), tp) : tp \in BOOLEAN}}

Rerun == Len(calls) = 2 /\ calls[1] = calls[2]

Level3 == {"wisper", "wisperdata"}
Addvars == {"getdata.wisperaddvars", "wisperaddvars.wisperaddvars"}

ProgramsAddvars ==
    {<<[fn |-> "getdata.wisperaddvars", date |-> D(y, 1)]>> : y \in {2016, 2017, 2018}}
    \cup {<<[fn |-> "wisperaddvars.wisperaddvars", date |-> D(y, 1),
             mergevarkeys_nc |-> <<"Latitude", "Static_Pressure">>,
             mergevarkeys_return |-> <<"lat", "P_hPa">>,
             add_cloudvars |-> cv]>> : y \in {2017, 2019}, cv \in BOOLEAN}

Programs3 ==
    {<<[fn |-> "wisper", date |-> D(y, 1), add_cloudvars |-> cv]>> :
        y \in {2016, 2017, 2018, 2019}, cv \in BOOLEAN}
    \cup {<<[fn |-> "wisperdata", date |-> D(y, 1)]>> :
            y \in {2016, 2017, 2018, 2019}}

\* Calls of wisper_uncertainties_MC: a grid of three points (the last outside the
\* domain of the formula), parameter means and standard deviations, and the
\* measurement noise sig_d (None, or one standard deviation per grid point).
None == <<>>
GridD == <<Fin(-70), Fin(-100), Fin(-70)>>
GridQ == <<Fin(1500), Fin(22000), Fin(100000)>>
Zeros4 == <<Fin(0), Fin(0), Fin(0), Fin(0)>>

ProgramsMC ==
    {<<[fn |-> "wisper_uncertainties_MC", d |-> GridD, q |-> GridQ,
        calparams |-> cp, sig_calparams |-> sp, sig_d |-> sd]>> :
        cp \in {<<Fin(-2), <<3, 2>>, Fin(2), Fin(-6)>>, <<Fin(3), <<3, 1>>, Fin(2), Fin(4)>>},
        sp \in {Zeros4, <<Fin(1), Fin(0), Fin(0), Fin(0)>>,
                <<Fin(0), Fin(1), Fin(0), Fin(0)>>, <<Fin(0), Fin(0), Fin(1), Fin(2)>>},
        sd \in {None, <<Fin(0), Fin(0), Fin(0)>>, <<Fin(1), Fin(2), Fin(1)>>}}

\* Calls of the two isotope cross-calibration functions on the same arguments: a
\* coefficient vector c holds the values of logq^3, logq^2, logq^1, d^1, d^2, d^3,
\* (d*logq)^1, (d*logq)^2, (d*logq)^3 and const.
CoefficientVectors ==
    {[i \in 1..10 |-> Fin(v[i])] :
        v \in {<<1, -2, 3, 2, -1, 1, 1, -1, 2, 5>>, <<0, 1, 0, -3, 2, 4, 1, 0, -1, -7>>,
               <<0, 0, 0, 0, 0, 1, 0, 0, 0, 0>>}}

CoefficientKeys(iso) ==
    <<"logq^3", "logq^2", "logq^1", iso \o "^1", iso \o "^2", iso \o "^3",
      "(" \o iso \o "*logq)^1", "(" \o iso \o "*logq)^2", "(" \o iso \o "*logq)^3",
      "const">>

\* The dict p of a function: the values of c under the key names of the isotope.
CoefficientDict(c, iso) ==
    LET keys == CoefficientKeys(iso)
    IN [k \in {keys[i] : i \in 1..10} |-> c[CHOOSE i \in 1..10 : keys[i] = k]]

ProgramsXcal ==
    {<<[fn |-> "xcal", logq |-> l, delta |-> d, c |-> c]>> :
        l \in {Fin(7), Fin(10), Fin(0), NaN, NegInf},
        d \in {Fin(-30), Fin(0), Fin(20), NaN},
        c \in CoefficientVectors}

\* The Mako 2016 row of qdependence_fit_results.csv: the fitted a and b of the
\* two isotopes and their standard deviations.
QdepRows ==
    {("aD" :> Fin(-2)) @@ ("bD" :> Fin(3)) @@ ("a18O" :> Fin(-1)) @@ ("b18O" :> Fin(5))
       @@ ("sig_aD" :> Fin(s)) @@ ("sig_bD" :> Fin(s + 1))
       @@ ("sig_a18O" :> Fin(s + 2)) @@ ("sig_b18O" :> Fin(s + 3)) : s \in {1, 6}}

ProgramsCalparams ==
    {<<[fn |-> "get_calparams", iso |-> iso, sig_absoffset |-> so, pars_qdep_16 |-> r]>> :
        iso \in {"D", "18O"}, so \in {Fin(1), Fin(4)}, r \in QdepRows}

\* Calls of fit_poly on a flattened mesh of humidities and isotope ratios with a
\* standard-deviation surface (args = <<q, d, sig_d>>), and of wisper_sig_formula
\* (args = <<q, d, pars>>). The humidities of the mesh are stand-ins whose
\* logarithms are 1 .. 5, the isotope ratios are -3 and -1.
FitQ == <<Fin(3), Fin(9), Fin(25), Fin(68), Fin(185)>>
FitD == <<Fin(-3), Fin(-1)>>
MeshQ == [i \in 1..(Len(FitQ) * Len(FitD)) |-> FitQ[((i - 1) % Len(FitQ)) + 1]]
MeshD == [i \in 1..(Len(FitQ) * Len(FitD)) |-> FitD[((i - 1) \div Len(FitQ)) + 1]]

\* Standard-deviation surfaces over the mesh: sums of the six terms with small
\* integer weights, whole or with one point missing.
SurfaceWeights ==
    {<<1, 0, 0, 0, 0, 0>>, <<1, -1, 0, 0, 1, 1>>, <<0, 1, -1, 1, 0, -1>>,
     <<-1, 0, 1, 0, -1, 0>>, <<0, 0, 0, 1, 0, -1>>}
SurfaceOf(w) ==
    [i \in 1..Len(MeshQ) |->
        LET l == Ln(MeshQ[i]).v
        IN Fin(w[1] + w[2] * l + w[3] * l * l + w[4] * l * l * l
               + w[5] * l * l * l * l + w[6] * MeshD[i].v)]
Surfaces ==
    {SurfaceOf(w) : w \in SurfaceWeights}
    \cup {[SurfaceOf(w) EXCEPT ![j] = NaN] : w \in SurfaceWeights, j \in {1, 7}}

ProgramsFit ==
    {<<[fn |-> "fit_poly", args |-> <<MeshQ, MeshD, sd>>]>> : sd \in Surfaces}
    \cup {<<[fn |-> "wisper_sig_formula",
             args |-> <<q, d, [k \in 1..6 |-> Fin(w[k])]>>]>> :
             q \in {Fin(9), Fin(1500), Fin(0), NaN}, d \in {Fin(-3), Fin(-70), NaN},
             w \in SurfaceWeights}

\* Calls of pic1_uncertainties(), with the Mako 2016 row of the table it reads.
ProgramsUncertainties ==
    {<<[fn |-> "pic1_uncertainties", pars_qdep_16 |-> r]>> : r \in QdepRows}

RECURSIVE AllDates(_)
AllDates(cs) ==
    IF cs = <<>> THEN <<>>
    ELSE (IF "dates" \in DOMAIN Head(cs) THEN Head(cs).dates ELSE <<>>)
         \o AllDates(Tail(cs))

Init ==
    /\ calls \in Programs \cup Reruns \cup Programs3 \cup ProgramsMC \cup ProgramsAddvars
                \cup ProgramsXcal \cup ProgramsCalparams \cup ProgramsFit
                \cup ProgramsUncertainties
    /\ ci = 1
    /\ pc = "call"
    /\ di = 0
    /\ env = Unbound
    /\ data = NoData
    /\ h2o_corrected = NoData
    /\ dD_corrected = NoData
    /\ d18O_corrected = NoData
    /\ files \in IF calls[1].fn \in Level3 \cup Addvars THEN StoresL3(calls[1].date)
                 ELSE IF Rerun THEN Stores(calls[1].dates)
                 ELSE Stores(AllDates(calls))
    /\ out = [d \in DOMAIN files |-> Absent]
    /\ err = "none"
    /\ ret = NaN
    /\ wisper = NoData
    /\ wisper_new = NoData
    /\ merged_pd = NoData
    /\ wisper_addvars = NoData
    /\ trials = <<>>
    /\ mergefiles \in IF calls[1].fn \in Addvars THEN StoresMerge(calls[1].date)
                      ELSE {<<>>}

\* The call returns: the next call of the script starts, or the script ends.
Return ==
    IF ci < Len(calls) THEN ci' = ci + 1 /\ pc' = "call"
    ELSE ci' = ci /\ pc' = "exit"

\* An exception nobody catches ends the run.
Raise(e) == pc' = "raised" /\ err' = e

(***************************************************************************)
(* pic2_cal16(dates, pic)                                                  *)
(***************************************************************************)
pic2_cal16_params ==
    /\ pc = "call" /\ cur.fn = "pic2_cal16"
    /\ env' = Params16(cur.pic)
    /\ data' = NoData
    /\ di' = 0
    /\ pc' = "for16"
    /\ UNCHANGED <<calls, mergefiles, wisper, wisper_new, merged_pd, wisper_addvars, trials,
                   ci, h2o_corrected, dD_corrected, d18O_corrected,
                   files, out, err, ret>>

pic2_cal16_for ==
    /\ pc = "for16"
    /\ IF di < Len(cur.dates)
       THEN di' = di + 1 /\ pc' = "load16" /\ ci' = ci
       ELSE di' = di /\ Return
    /\ UNCHANGED <<calls, mergefiles, wisper, wisper_new, merged_pd, wisper_addvars, trials,
                   env, data, h2o_corrected, dD_corrected, d18O_corrected,
                   files, out, err, ret>>

\* Mutant: the frame of the flight before is kept when there is one.
pic2_cal16_load_carried ==
    /\ pc = "load16"
    /\ IF files[date].exists
       THEN /\ data' = IF data = NoData THEN replace(read_csv(files[date])) ELSE data
            /\ pc' = "qdepD" /\ err' = err
       ELSE data' = data /\ Raise("FileNotFoundError")
    /\ UNCHANGED <<calls, mergefiles, wisper, wisper_new, merged_pd, wisper_addvars, trials,
                   ci, di, env, h2o_corrected, dD_corrected, d18O_corrected,
                   files, out, ret>>

pic2_cal16_load ==
    /\ pc = "load16"
    /\ IF files[date].exists
       THEN data' = replace(read_csv(files[date])) /\ pc' = "qdepD" /\ err' = err
       ELSE data' = data /\ Raise("FileNotFoundError")
    /\ UNCHANGED <<calls, mergefiles, wisper, wisper_new, merged_pd, wisper_addvars, trials,
                   ci, di, env, h2o_corrected, dD_corrected, d18O_corrected,
                   files, out, ret>>

\* Mutant: the humidity is calibrated before the humidity-dependence corrections.
pic2_cal16_qdepD_calibrated_q ==
    /\ pc = "qdepD"
    /\ IF env.bound
       THEN /\ data' =
                 LET q == [i \in 1..Len(data.h2o_tot2) |->
                              abscal_line(data.h2o_tot2[i], env.mq, env.kq)]
                 IN [data EXCEPT !.h2o_tot2 = q,
                                 !.dD_tot2 = [i \in 1..Len(@) |->
                                     q_dep_cal(@[i], q[i], env.aD, env.bD)]]
            /\ pc' = "qdep18O" /\ err' = err
       ELSE data' = data /\ Raise("UnboundLocalError")
    /\ UNCHANGED <<calls, mergefiles, wisper, wisper_new, merged_pd, wisper_addvars, trials,
                   ci, di, env, h2o_corrected, dD_corrected, d18O_corrected,
                   files, out, ret>>

pic2_cal16_qdepD ==
    /\ pc = "qdepD"
    /\ IF env.bound
       THEN /\ data' = [data EXCEPT !.dD_tot2 = [i \in 1..Len(@) |->
                           q_dep_cal(@[i], data.h2o_tot2[i], env.aD, env.bD)]]
            /\ pc' = "qdep18O" /\ err' = err
       ELSE data' = data /\ Raise("UnboundLocalError")
    /\ UNCHANGED <<calls, mergefiles, wisper, wisper_new, merged_pd, wisper_addvars, trials,
                   ci, di, env, h2o_corrected, dD_corrected, d18O_corrected,
                   files, out, ret>>

pic2_cal16_qdep18O ==
    /\ pc = "qdep18O"
    /\ data' = [data EXCEPT !.d18O_tot2 = [i \in 1..Len(@) |->
                   q_dep_cal(@[i], data.h2o_tot2[i], env.a18O, env.b18O)]]
    /\ pc' = "absD"
    /\ UNCHANGED <<calls, mergefiles, wisper, wisper_new, merged_pd, wisper_addvars, trials,
                   ci, di, env, h2o_corrected, dD_corrected, d18O_corrected,
                   files, out, err, ret>>

pic2_cal16_absD ==
    /\ pc = "absD"
    /\ data' = [data EXCEPT !.dD_tot2 = [i \in 1..Len(@) |->
                   abscal_line(@[i], env.mD, env.kD)]]
    /\ pc' = "abs18O"
    /\ UNCHANGED <<calls, mergefiles, wisper, wisper_new, merged_pd, wisper_addvars, trials,
                   ci, di, env, h2o_corrected, dD_corrected, d18O_corrected,
                   files, out, err, ret>>

pic2_cal16_abs18O ==
    /\ pc = "abs18O"
    /\ data' = [data EXCEPT !.d18O_tot2 = [i \in 1..Len(@) |->
                   abscal_line(@[i], env.m18O, env.k18O)]]
    /\ pc' = "absq"
    /\ UNCHANGED <<calls, mergefiles, wisper, wisper_new, merged_pd, wisper_addvars, trials,
                   ci, di, env, h2o_corrected, dD_corrected, d18O_corrected,
                   files, out, err, ret>>

\* Mutant: the humidity goes through the humidity-dependence correction as well.
pic2_cal16_absq_fullcal ==
    /\ pc = "absq"
    /\ data' = [data EXCEPT !.h2o_tot2 = [i \in 1..Len(@) |->
                   abscal_line(q_dep_cal(@[i], @[i], env.aD, env.bD), env.mq, env.kq)]]
    /\ pc' = "save16"
    /\ UNCHANGED <<calls, mergefiles, wisper, wisper_new, merged_pd, wisper_addvars, trials,
                   ci, di, env, h2o_corrected, dD_corrected, d18O_corrected,
                   files, out, err, ret>>

pic2_cal16_absq ==
    /\ pc = "absq"
    /\ data' = [data EXCEPT !.h2o_tot2 = [i \in 1..Len(@) |->
                   abscal_line(@[i], env.mq, env.kq)]]
    /\ pc' = "save16"
    /\ UNCHANGED <<calls, mergefiles, wisper, wisper_new, merged_pd, wisper_addvars, trials,
                   ci, di, env, h2o_corrected, dD_corrected, d18O_corrected,
                   files, out, err, ret>>

pic2_cal16_save ==
    /\ pc = "save16"
    /\ out' = [out EXCEPT ![date] = File(to_csv(data))]
    /\ pc' = "for16"
    /\ UNCHANGED <<calls, mergefiles, wisper, wisper_new, merged_pd, wisper_addvars, trials,
                   ci, di, env, data, h2o_corrected, dD_corrected,
                   d18O_corrected, files, err, ret>>

(***************************************************************************)
(* pic2_cal1718(year, dates, testplots)                                    *)
(***************************************************************************)
\* Lines 35-42: the three sheets are read and indexed by year.
pic2_cal1718_tables ==
    /\ pc = "call" /\ cur.fn = "pic2_cal1718"
    /\ data' = NoData
    /\ h2o_corrected' = NoData
    /\ dD_corrected' = NoData
    /\ d18O_corrected' = NoData
    /\ di' = 0
    /\ pc' = "for1718"
    /\ UNCHANGED <<calls, mergefiles, wisper, wisper_new, merged_pd, wisper_addvars, trials,
                   ci, env, files, out, err, ret>>

pic2_cal1718_for ==
    /\ pc = "for1718"
    /\ IF di < Len(cur.dates)
       THEN di' = di + 1 /\ pc' = "load1718" /\ ci' = ci
       ELSE di' = di /\ Return
    /\ UNCHANGED <<calls, mergefiles, wisper, wisper_new, merged_pd, wisper_addvars, trials,
                   env, data, h2o_corrected, dD_corrected, d18O_corrected,
                   files, out, err, ret>>

\* Mutant: a flight that has an output file is loaded from it.
pic2_cal1718_load_resumed ==
    /\ pc = "load1718"
    /\ IF files[date].exists
       THEN /\ data' = replace(read_csv(IF out[date].exists THEN out[date]
                                        ELSE files[date]))
            /\ pc' = "xcalq" /\ err' = err
       ELSE data' = data /\ Raise("FileNotFoundError")
    /\ UNCHANGED <<calls, mergefiles, wisper, wisper_new, merged_pd, wisper_addvars, trials,
                   ci, di, env, h2o_corrected, dD_corrected, d18O_corrected,
                   files, out, ret>>

pic2_cal1718_load ==
    /\ pc = "load1718"
    /\ IF files[date].exists
       THEN data' = replace(read_csv(files[date])) /\ pc' = "xcalq" /\ err' = err
       ELSE data' = data /\ Raise("FileNotFoundError")
    /\ UNCHANGED <<calls, mergefiles, wisper, wisper_new, merged_pd, wisper_addvars, trials,
                   ci, di, env, h2o_corrected, dD_corrected, d18O_corrected,
                   files, out, ret>>

\* Line 101; params_h2o.loc[year] raises KeyError for a year the sheet lacks.
pic2_cal1718_h2o ==
    /\ pc = "xcalq"
    /\ IF cur.year \in DOMAIN params_h2o
       THEN /\ h2o_corrected' = [i \in 1..Len(data.h2o_tot2) |->
                                   xcal_h2o(data.h2o_tot2[i], params_h2o[cur.year])]
            /\ pc' = "xcalD" /\ err' = err
       ELSE h2o_corrected' = h2o_corrected /\ Raise("KeyError")
    /\ UNCHANGED <<calls, mergefiles, wisper, wisper_new, merged_pd, wisper_addvars, trials,
                   ci, di, env, data, dD_corrected, d18O_corrected,
                   files, out, ret>>

pic2_cal1718_dD ==
    /\ pc = "xcalD"
    /\ dD_corrected' =
          LET logq == LogCol(data.h2o_tot2)
              smooth == RollingMean(data.dD_tot2)
          IN [i \in 1..Len(smooth) |-> xcal_dD(logq[i], smooth[i], params_dD[cur.year])]
    /\ pc' = "xcal18O"
    /\ UNCHANGED <<calls, mergefiles, wisper, wisper_new, merged_pd, wisper_addvars, trials,
                   ci, di, env, data, h2o_corrected, d18O_corrected,
                   files, out, err, ret>>

pic2_cal1718_d18O ==
    /\ pc = "xcal18O"
    /\ d18O_corrected' =
          LET logq == LogCol(data.h2o_tot2)
              smooth == RollingMean(data.d18O_tot2)
          IN [i \in 1..Len(smooth) |->
                xcal_d18O(logq[i], smooth[i], params_d18O[cur.year])]
    /\ pc' = "plots"
    /\ UNCHANGED <<calls, mergefiles, wisper, wisper_new, merged_pd, wisper_addvars, trials,
                   ci, di, env, data, h2o_corrected, dD_corrected,
                   files, out, err, ret>>

\* Lines 114-133: with testplots, the four isotope columns of `data` are replaced
\* by their moving averages before they are plotted.
pic2_cal1718_plots ==
    /\ pc = "plots"
    /\ data' = IF cur.testplots
               THEN [data EXCEPT !.dD_tot1 = RollingMean(@),
                                 !.dD_tot2 = RollingMean(@),
                                 !.d18O_tot1 = RollingMean(@),
                                 !.d18O_tot2 = RollingMean(@)]
               ELSE data
    /\ pc' = "save1718"
    /\ UNCHANGED <<calls, mergefiles, wisper, wisper_new, merged_pd, wisper_addvars, trials,
                   ci, di, env, h2o_corrected, dD_corrected, d18O_corrected,
                   files, out, err, ret>>

pic2_cal1718_save ==
    /\ pc = "save1718"
    /\ data' = [data EXCEPT !.h2o_tot2 = h2o_corrected,
                            !.dD_tot2 = dD_corrected,
                            !.d18O_tot2 = d18O_corrected]
    /\ out' = [out EXCEPT ![date] = File(to_csv(data'))]
    /\ pc' = "for1718"
    /\ UNCHANGED <<calls, mergefiles, wisper, wisper_new, merged_pd, wisper_addvars, trials,
                   ci, di, env, h2o_corrected, dD_corrected, d18O_corrected,
                   files, err, ret>>

(***************************************************************************)
(* The pure functions, called on their own.                                *)
(***************************************************************************)
call_q_dep_cal ==
    /\ pc = "call" /\ cur.fn = "q_dep_cal"
    /\ ret' = q_dep_cal(cur.d, cur.q, cur.a, cur.b)
    /\ Return
    /\ UNCHANGED <<calls, mergefiles, wisper, wisper_new, merged_pd, wisper_addvars, trials,
                   di, env, data, h2o_corrected, dD_corrected,
                   d18O_corrected, files, out, err>>

\* get_calparams(iso, sig_absoffset), with the Mako 2016 row of the table read at
\* lines 131-133. The slopes, offsets and their standard deviations are real
\* numbers in the code, small integers here.
get_calparams(iso, sig_absoffset, pars_qdep_16) ==
    LET pars_qdep == <<pars_qdep_16["a" \o iso], pars_qdep_16["b" \o iso]>>
        m == IF iso = "D" THEN Fin(2) ELSE Fin(3)
        k == IF iso = "D" THEN Fin(-6) ELSE Fin(-1)
        pars == pars_qdep \o <<m, k>>
        sigpars_qdep == <<pars_qdep_16["sig_aD"], pars_qdep_16["sig_bD"]>>
        sigm == IF iso = "D" THEN Fin(7) ELSE Fin(8)
        sigk == sig_absoffset
        sigpars == sigpars_qdep \o <<sigm, sigk>>
    IN <<pars, sigpars>>

call_get_calparams ==
    /\ pc = "call" /\ cur.fn = "get_calparams"
    /\ ret' = get_calparams(cur.iso, cur.sig_absoffset, cur.pars_qdep_16)
    /\ Return
    /\ UNCHANGED <<calls, mergefiles, wisper, wisper_new, merged_pd, wisper_addvars,
                   trials, di, env, data, h2o_corrected, dD_corrected,
                   d18O_corrected, files, out, err>>

\* xcal_dD and xcal_d18O called on the same arguments.
call_xcal ==
    /\ pc = "call" /\ cur.fn = "xcal"
    /\ ret' = <<xcal_dD(cur.logq, cur.delta, CoefficientDict(cur.c, "dD")),
                xcal_d18O(cur.logq, cur.delta, CoefficientDict(cur.c, "d18O"))>>
    /\ Return
    /\ UNCHANGED <<calls, mergefiles, wisper, wisper_new, merged_pd, wisper_addvars,
                   trials, di, env, data, h2o_corrected, dD_corrected,
                   d18O_corrected, files, out, err>>

\* pic1_cal.q_dep_cal and pic1_cal.abs_cal: the module pic1_cal is imported by
\* uncertainty_estimation.py; the humidity-dependence correction and the absolute
\* calibration as the specification gives them.
pic1_cal_q_dep_cal(d, q, a, b) ==
    Sub(d, Mul(a, Pow(Sub(Ln(Fin(QRef)), Ln(q)), b)))

pic1_cal_abs_cal(x, m, k) == Add(Mul(m, x), k)

\* Mutant: the absolute calibration first, the humidity correction second.
pic1_isoratio_fullcal_swapped(d, q, calparams) ==
    pic1_cal_q_dep_cal(pic1_cal_abs_cal(d, calparams[3], calparams[4]), q,
                       calparams[1], calparams[2])

pic1_isoratio_fullcal(d, q, calparams) ==
    LET d_qdep_correct == pic1_cal_q_dep_cal(d, q, calparams[1], calparams[2])
        d_abscal == pic1_cal_abs_cal(d_qdep_correct, calparams[3], calparams[4])
    IN d_abscal

call_pic1_isoratio_fullcal ==
    /\ pc = "call" /\ cur.fn = "pic1_isoratio_fullcal"
    /\ ret' = pic1_isoratio_fullcal(cur.d, cur.q, cur.calparams)
    /\ Return
    /\ UNCHANGED <<calls, mergefiles, wisper, wisper_new, merged_pd, wisper_addvars, trials,
                   di, env, data, h2o_corrected, dD_corrected,
                   d18O_corrected, files, out, err>>

(***************************************************************************)
(* wisper_uncertainties_MC(d, q, calparams, sig_calparams, sig_d) and the   *)
(* sampler mc.mc_normalsampler it calls.  The module mc_sampler is imported *)
(* by uncertainty_estimation.py; the sampler is the Monte Carlo engine as   *)
(* the specification gives it.                                              *)
(***************************************************************************)
\* The number of trials (6000 in the call).
NTrials == 3

\* The standard normal deviates a trial may draw: one per parameter, one for the
\* measurement noise.
Draws == {<<0, 0, 0, 0, 0>>, <<1, -1, 1, -1, 1>>, <<-1, 1, 0, 1, -1>>}

\* A draw from Normal(mean, sigma) with the deviate z.
Normal(mean, sigma, z) == Add(mean, Mul(sigma, Fin(z)))

\* Mutant: the deviate is not scaled by sigma.
Resample_unscaled(calparams, sig, z) ==
    <<Add(calparams[1], Fin(z[1])), calparams[2],
      Add(calparams[3], Fin(z[3])), Add(calparams[4], Fin(z[4]))>>

\* The parameters of one trial; the exponent b = <<n, d>> moves by sigma * z.
Resample(calparams, sig, z) ==
    <<Normal(calparams[1], sig[1], z[1]),
      <<calparams[2][1] + sig[2].v * z[2] * calparams[2][2], calparams[2][2]>>,
      Normal(calparams[3], sig[3], z[3]),
      Normal(calparams[4], sig[4], z[4])>>

\* sig_inputvars=[sig_d, sig_q] with sig_q = 0, or no noise on the inputs.
NoisyD(d, sig_d, z) ==
    IF sig_d = None THEN d ELSE [i \in 1..Len(d) |-> Normal(d[i], sig_d[i], z[5])]

FiniteOf(xs) == SelectSeq(xs, IsFin)

\* Integer part of the square root.
RECURSIVE ISqrt(_)
ISqrt(n) ==
    IF n < 2 THEN n
    ELSE LET r == 2 * ISqrt(n \div 4) IN IF (r + 1) * (r + 1) <= n THEN r + 1 ELSE r

RECURSIVE SumSq(_)
SumSq(xs) == IF xs = <<>> THEN 0 ELSE Head(xs).v * Head(xs).v + SumSq(Tail(xs))

\* Mean and standard deviation of the finite realizations of one grid point; the
\* standard deviation is in units of 1/n: sqrt(n * sum(x^2) - sum(x)^2).
MeanOf(xs) ==
    LET f == FiniteOf(xs) IN
    IF f = <<>> THEN NaN ELSE Fin(SumSeq(f).v \div Len(f))
StdOf(xs) ==
    LET f == FiniteOf(xs) IN
    IF f = <<>> THEN NaN
    ELSE Fin(ISqrt(Len(f) * SumSq(f) - SumSeq(f).v * SumSeq(f).v))

wisper_uncertainties_MC ==
    /\ pc = "call" /\ cur.fn = "wisper_uncertainties_MC"
    /\ trials' = <<>>
    /\ pc' = "mc"
    /\ UNCHANGED <<calls, mergefiles, wisper, wisper_new, merged_pd, wisper_addvars,
                   ci, di, env, data, h2o_corrected, dD_corrected, d18O_corrected,
                   files, out, err, ret>>

mc_normalsampler_trial ==
    /\ pc = "mc" /\ Len(trials) < NTrials
    /\ \E z \in Draws :
          LET pars == Resample(cur.calparams, cur.sig_calparams, z)
              dn == NoisyD(cur.d, cur.sig_d, z)
          IN trials' = Append(trials,
                [i \in 1..Len(cur.d) |-> pic1_isoratio_fullcal(dn[i], cur.q[i], pars)])
    /\ UNCHANGED <<calls, mergefiles, wisper, wisper_new, merged_pd, wisper_addvars,
                   ci, pc, di, env, data, h2o_corrected, dD_corrected, d18O_corrected,
                   files, out, err, ret>>

\* return_agg=True: the mean and the standard-deviation surface.
mc_normalsampler_return ==
    /\ pc = "mc" /\ Len(trials) = NTrials
    /\ ret' = <<[i \in 1..Len(cur.d) |-> MeanOf([t \in 1..NTrials |-> trials[t][i]])],
                [i \in 1..Len(cur.d) |-> StdOf([t \in 1..NTrials |-> trials[t][i]])]>>
    /\ Return
    /\ UNCHANGED <<calls, mergefiles, wisper, wisper_new, merged_pd, wisper_addvars, trials,
                   di, env, data, h2o_corrected, dD_corrected, d18O_corrected,
                   files, out, err>>

(***************************************************************************)
(* fit_poly(q, d, sig_d) and wisper_sig_formula(q, d, pars).                *)
(***************************************************************************)
\* Mutant: the isotope ratio is the second predictor.
predictorvars_d_second == <<"const", "d", "logq", "logq^2", "logq^3", "logq^4">>

\* Line 110.
predictorvars == <<"const", "logq", "logq^2", "logq^3", "logq^4", "d">>

\* Lines 100-107: the rows of df_forfit.
df_forfit(q, d, sig_d) ==
    [i \in 1..Len(q) |->
        LET logq == Ln(q[i]) IN
        ("logq" :> logq) @@ ("d" :> d[i]) @@ ("sig_d" :> sig_d[i])
        @@ ("logq^2" :> Pow(logq, <<2, 1>>)) @@ ("logq^3" :> Pow(logq, <<3, 1>>))
        @@ ("logq^4" :> Pow(logq, <<4, 1>>)) @@ ("const" :> Fin(1))]

\* The coefficient vectors a fit may return: the weights are real numbers in the
\* code, integers of -1 .. 1 here.
FitWeights == {-1, 0, 1}
Candidates == [1..6 -> {Fin(v) : v \in FitWeights}]

\* The value of a linear model at one row of predictors.
Dot(b, x) ==
    Add(Add(Add(Add(Add(Mul(b[1], x[1]), Mul(b[2], x[2])), Mul(b[3], x[3])),
                Mul(b[4], x[4])), Mul(b[5], x[5])), Mul(b[6], x[6]))

\* sm.OLS(endog, exog, missing='drop').fit().params: the rows with a missing value
\* are dropped and the coefficients, one per column of exog in the order of the
\* columns, minimise the residual sum of squares over the rows kept.
OLS(endog, exog) ==
    LET n == Len(endog)
        Kept(i) == ~IsNaN(endog[i]) /\ \A k \in 1..6 : ~IsNaN(exog[i][k])
        RSS(b) ==
            LET S[i \in 0..n] ==
                    IF i = 0 THEN 0
                    ELSE S[i - 1] +
                         (IF Kept(i)
                          THEN (endog[i].v - Dot(b, exog[i]).v)
                               * (endog[i].v - Dot(b, exog[i]).v)
                          ELSE 0)
            IN S[n]
        rs == {RSS(b) : b \in Candidates}
        least == CHOOSE r \in rs : \A t \in rs : r <= t
    IN CHOOSE b \in Candidates : RSS(b) = least

\* Lines 90-116.
fit_poly(q, d, sig_d) ==
    LET df == df_forfit(q, d, sig_d)
        endog == [i \in 1..Len(df) |-> df[i]["sig_d"]]
        exog == [i \in 1..Len(df) |-> [k \in 1..6 |-> df[i][predictorvars[k]]]]
    IN OLS(endog, exog)

call_fit_poly ==
    /\ pc = "call" /\ cur.fn = "fit_poly"
    /\ ret' = fit_poly(cur.args[1], cur.args[2], cur.args[3])
    /\ Return
    /\ UNCHANGED <<calls, mergefiles, wisper, wisper_new, merged_pd, wisper_addvars,
                   trials, di, env, data, h2o_corrected, dD_corrected,
                   d18O_corrected, files, out, err>>

\* Lines 176-188.
wisper_sig_formula(q, d, pars) ==
    Add(Add(Add(Add(Add(pars[1], Mul(pars[2], Ln(q))),
                        Mul(pars[3], Pow(Ln(q), <<2, 1>>))),
                    Mul(pars[4], Pow(Ln(q), <<3, 1>>))),
                Mul(pars[5], Pow(Ln(q), <<4, 1>>))),
        Mul(pars[6], d))

call_wisper_sig_formula ==
    /\ pc = "call" /\ cur.fn = "wisper_sig_formula"
    /\ ret' = wisper_sig_formula(cur.args[1], cur.args[2], cur.args[3])
    /\ Return
    /\ UNCHANGED <<calls, mergefiles, wisper, wisper_new, merged_pd, wisper_addvars,
                   trials, di, env, data, h2o_corrected, dD_corrected,
                   d18O_corrected, files, out, err>>

(***************************************************************************)
(* pic1_uncertainties().                                                    *)
(***************************************************************************)
\* Lines 407-437: the figure, the Mako 2016 row of the table, the means
\* pars_all_D and the standard deviations sigpars_all_D of use-case 1 (sig_kD = 1).
pic1_uncertainties_params ==
    /\ pc = "call" /\ cur.fn = "pic1_uncertainties"
    /\ env' = LET r == cur.pars_qdep_16 IN
              [bound |-> TRUE,
               pars_all_D |-> <<r["aD"], r["bD"], Fin(2), Fin(-6)>>,
               sigpars_all_D |-> <<r["sig_aD"], r["sig_bD"], Fin(7), Fin(1)>>]
    /\ pc' = "sigWISP1_D"
    /\ UNCHANGED <<calls, mergefiles, wisper, wisper_new, merged_pd, wisper_addvars,
                   trials, ci, di, data, h2o_corrected, dD_corrected,
                   d18O_corrected, files, out, err, ret>>

\* Line 438 calls sigma_with_fit_dD(pars_all_D, sigpars_all_D, sig_inputvars=True):
\* lines 307-311 build the grid and the precisions, and line 312 evaluates the name
\* pic1_isoratio_fullcal, which no scope of pic1_uncertainties defines (its
\* definition at lines 275-281 is commented out; the one at line 54 is local to
\* wisper_uncertainties_MC).
sigma_with_fit_dD ==
    /\ pc = "sigWISP1_D"
    /\ Raise("NameError")
    /\ UNCHANGED <<calls, mergefiles, wisper, wisper_new, merged_pd, wisper_addvars,
                   trials, ci, di, env, data, h2o_corrected, dD_corrected,
                   d18O_corrected, files, out, ret>>

(***************************************************************************)
(* The level-3 loaders of one flight: wisper(date, add_cloudvars) of        *)
(* wisperaddvars.py and wisperdata(date) of getdata.py.                     *)
(***************************************************************************)

\* convertq.ppmv_to_gkg: the module convertq is imported by the loaders; the change
\* of unit from ppmv to g/kg is a multiplication by the ratio of the molar masses
\* (622 here, in units of 1e-6 g/kg).
ppmv_to_gkg(col) == [i \in 1..Len(col) |-> Mul(Fin(622), col[i])]

\* wisper[[keys]]
Select(frame, keys) == [c \in keys |-> frame[c]]

\* k[:-1] + '2'
Pic2Key(k) ==
    IF k = "h2o_tot1" THEN "h2o_tot2"
    ELSE IF k = "dD_tot1" THEN "dD_tot2" ELSE "d18O_tot2"

\* The Pic1 columns, with the Pic2 value wherever isnull() finds the Pic1 value.
GapFill(frame) ==
    [k \in {"Start_UTC", "h2o_tot1", "dD_tot1", "d18O_tot1"} |->
        IF k = "Start_UTC" THEN frame[k]
        ELSE [i \in 1..Len(frame[k]) |->
                IF IsNull(frame[k][i]) THEN frame[Pic2Key(k)][i] ELSE frame[k][i]]]

\* wisper_new.columns = ['Start_UTC','h2o_gkg','dD_permil','d18O_permil']
Renamed(frame, q, dD, d18O) ==
    [Start_UTC |-> frame.Start_UTC, h2o_gkg |-> frame[q],
     dD_permil |-> frame[dD], d18O_permil |-> frame[d18O]]

\* The single column per vapour variable of a loaded frame.
SingleColumns(frame, year) ==
    IF year = 2016
    THEN Renamed(Select(frame, {"Start_UTC", "h2o_tot2", "dD_tot2", "d18O_tot2"}),
                 "h2o_tot2", "dD_tot2", "d18O_tot2")
    ELSE Renamed(GapFill(frame), "h2o_tot1", "dD_tot1", "d18O_tot1")

\* for cloudkey in [...]: wisper_new[cloudkey] = wisper[cloudkey]
WithCloud(new, frame) ==
    [c \in DOMAIN new \cup CloudKeys |->
        IF c \in CloudKeys THEN frame[c] ELSE new[c]]

InWisperdata == cur.fn \in {"wisperdata", "getdata.wisperaddvars"}

L3Unchanged ==
    UNCHANGED <<calls, mergefiles, merged_pd, wisper_addvars, trials,
                di, env, data, h2o_corrected, dD_corrected, d18O_corrected,
                files, out>>

wisper_read ==
    /\ pc = "call" /\ cur.fn = "wisper"
    /\ IF cur.date.year \notin {2016, 2017, 2018}
       THEN Raise("KeyError") /\ UNCHANGED <<ci, wisper>>
       ELSE IF ~files[cur.date].exists
       THEN Raise("FileNotFoundError") /\ UNCHANGED <<ci, wisper>>
       ELSE /\ wisper' = read_csv(files[cur.date])
            /\ pc' = "select"
            /\ UNCHANGED <<ci, err>>
    /\ UNCHANGED <<ret, wisper_new>>
    /\ L3Unchanged

wisper_select ==
    /\ pc = "select" /\ cur.fn = "wisper"
    /\ wisper_new' = SingleColumns(wisper, cur.date.year)
    /\ pc' = "convert"
    /\ UNCHANGED <<ci, err, ret, wisper>>
    /\ L3Unchanged

wisper_convert ==
    /\ pc = "convert" /\ cur.fn = "wisper"
    /\ wisper_new' = [wisper_new EXCEPT !.h2o_gkg = ppmv_to_gkg(wisper_new.h2o_gkg)]
    /\ pc' = "cloud"
    /\ UNCHANGED <<ci, err, ret, wisper>>
    /\ L3Unchanged

wisper_return ==
    /\ pc = "cloud" /\ cur.fn = "wisper"
    /\ IF cur.add_cloudvars /\ ~(CloudKeys \subseteq DOMAIN wisper)
       THEN Raise("KeyError") /\ UNCHANGED <<ci, ret, wisper_new>>
       ELSE /\ wisper_new' = IF cur.add_cloudvars THEN WithCloud(wisper_new, wisper)
                             ELSE wisper_new
            /\ ret' = wisper_new'
            /\ Return
            /\ UNCHANGED err
    /\ UNCHANGED wisper
    /\ L3Unchanged

wisperdata_read ==
    /\ \/ pc = "call" /\ cur.fn = "wisperdata"
       \/ pc = "wisperdata" /\ cur.fn = "getdata.wisperaddvars"
    /\ IF cur.date.year \notin {2016, 2017, 2018}
       THEN Raise("KeyError") /\ UNCHANGED <<ci, wisper>>
       ELSE IF ~files[cur.date].exists
       THEN Raise("FileNotFoundError") /\ UNCHANGED <<ci, wisper>>
       ELSE /\ wisper' = replace(read_csv(files[cur.date]))
            /\ pc' = "select"
            /\ UNCHANGED <<ci, err>>
    /\ UNCHANGED <<ret, wisper_new>>
    /\ L3Unchanged

wisperdata_select ==
    /\ pc = "select" /\ InWisperdata
    /\ wisper_new' = SingleColumns(wisper, cur.date.year)
    /\ pc' = "convert"
    /\ UNCHANGED <<ci, err, ret, wisper>>
    /\ L3Unchanged

wisperdata_convert ==
    /\ pc = "convert" /\ InWisperdata
    /\ wisper_new' = [wisper_new EXCEPT !.h2o_gkg = ppmv_to_gkg(wisper_new.h2o_gkg)]
    /\ pc' = "cloud"
    /\ UNCHANGED <<ci, err, ret, wisper>>
    /\ L3Unchanged

wisperdata_return ==
    /\ pc = "cloud" /\ InWisperdata
    /\ wisper_new' =
          IF cur.date.year \in {2017, 2018}
          THEN LET added == WithCloud(wisper_new, wisper)
                   kept == (DOMAIN added \ {"h2o_cld"}) \cup {"h2o_cld_gkg"}
               IN [c \in kept |->
                     IF c = "h2o_cld_gkg" THEN ppmv_to_gkg(added.h2o_cld)
                     ELSE added[c]]
          ELSE wisper_new
    /\ ret' = wisper_new'
    /\ IF cur.fn = "wisperdata" THEN Return ELSE pc' = "merged" /\ ci' = ci
    /\ UNCHANGED <<err, wisper>>
    /\ L3Unchanged

(***************************************************************************)
(* wisperaddvars(date) of getdata.py and                                   *)
(* wisperaddvars(date, mergevarkeys_nc, mergevarkeys_return, add_cloudvars) *)
(* of wisperaddvars.py.                                                    *)
(***************************************************************************)
\* The rows of the right frame whose key is x, from row j on.
RECURSIVE MatchesOf(_, _, _)
MatchesOf(x, rk, j) ==
    IF j > Len(rk) THEN <<>>
    ELSE (IF rk[j] = x THEN <<j>> ELSE <<>>) \o MatchesOf(x, rk, j + 1)

\* The pairs of rows with equal keys, in the order of the left frame.
RECURSIVE JoinPairs(_, _, _)
JoinPairs(lk, rk, i) ==
    IF i > Len(lk) THEN <<>>
    ELSE LET M == MatchesOf(lk[i], rk, 1)
         IN [n \in 1..Len(M) |-> <<i, M[n]>>] \o JoinPairs(lk, rk, i + 1)

\* left.merge(right, on='Start_UTC', how='inner')
merge(left, right) ==
    LET P == JoinPairs(left.Start_UTC, right.Start_UTC, 1)
    IN [c \in DOMAIN left \cup DOMAIN right |->
          [n \in 1..Len(P) |->
              IF c \in DOMAIN left THEN left[c][P[n][1]] ELSE right[c][P[n][2]]]]

\* cvi_cwc.cvi_cwc: the module cvi_cwc is imported by getdata.py; the cloud water
\* content is the cloud water mixing ratio scaled by the air density P / T and
\* divided by the enhancement factor (integer quotient here).
cvi_cwc(q, T, P, enh) ==
    IF IsFin(q) /\ IsFin(T) /\ IsFin(P) /\ IsFin(enh) /\ T.v * enh.v # 0
    THEN Fin((q.v \div (T.v * enh.v)) * P.v)
    ELSE NaN

altitude_key(year) == IF year = 2018 THEN "GPS_Altitude" ELSE "MSL_GPS_Altitude"

\* merged_pd of getdata.py: the time and the five variables under their new keys.
MergedFrame(ncvars, year) ==
    [Start_UTC |-> ncvars.Start_UTC,
     height_m |-> ncvars[altitude_key(year)],
     lat |-> ncvars.Latitude,
     lon |-> ncvars.Longitude,
     T_C |-> ncvars.Static_Air_Temp,
     P_hPa |-> ncvars.Static_Pressure]

\* T_K = T_C + 273, T_C dropped.
WithKelvin(frame) ==
    [c \in (DOMAIN frame \ {"T_C"}) \cup {"T_K"} |->
        IF c = "T_K" THEN [i \in 1..Len(frame.T_C) |-> Add(frame.T_C[i], Fin(273))]
        ELSE frame[c]]

\* cwc added, h2o_cld_gkg dropped.
WithCwc(frame) ==
    [c \in (DOMAIN frame \ {"h2o_cld_gkg"}) \cup {"cwc"} |->
        IF c = "cwc"
        THEN [i \in 1..Len(frame.Start_UTC) |->
                cvi_cwc(frame.h2o_cld_gkg[i], frame.T_K[i],
                        Mul(frame.P_hPa[i], Fin(100)), frame.cvi_enhance[i])]
        ELSE frame[c]]

AddvarsUnchanged ==
    UNCHANGED <<calls, mergefiles, ci, di, env, data, h2o_corrected, dD_corrected,
                d18O_corrected, files, out, trials, wisper, wisper_new>>

\* getdata.py line 70: wisper = wisperdata(date)
wisperaddvars_wisperdata ==
    /\ pc = "call" /\ cur.fn = "getdata.wisperaddvars"
    /\ pc' = "wisperdata"
    /\ UNCHANGED <<err, ret, merged_pd, wisper_addvars>>
    /\ AddvarsUnchanged

\* getdata.py lines 74-98
wisperaddvars_merged ==
    /\ pc = "merged" /\ cur.fn = "getdata.wisperaddvars"
    /\ IF ~mergefiles[cur.date].exists
       THEN Raise("FileNotFoundError") /\ UNCHANGED merged_pd
       ELSE /\ merged_pd' =
                 WithKelvin(replace(MergedFrame(mergefiles[cur.date].cols,
                                                cur.date.year)))
            /\ pc' = "merge"
            /\ UNCHANGED err
    /\ UNCHANGED <<ret, wisper_addvars>>
    /\ AddvarsUnchanged

\* getdata.py line 101; `wisper` is the frame wisperdata returned.
wisperaddvars_merge ==
    /\ pc = "merge" /\ cur.fn = "getdata.wisperaddvars"
    /\ wisper_addvars' = merge(ret, merged_pd)
    /\ pc' = "cwc"
    /\ UNCHANGED <<err, ret, merged_pd>>
    /\ AddvarsUnchanged

\* getdata.py lines 106-115
wisperaddvars_return ==
    /\ pc = "cwc" /\ cur.fn = "getdata.wisperaddvars"
    /\ wisper_addvars' = IF cur.date.year \in {2017, 2018}
                         THEN WithCwc(wisper_addvars) ELSE wisper_addvars
    /\ ret' = wisper_addvars'
    /\ pc' = "exit"
    /\ UNCHANGED <<err, merged_pd>>
    /\ AddvarsUnchanged

\* wisperaddvars.py lines 46-64
wisperaddvars2_merged ==
    /\ pc = "call" /\ cur.fn = "wisperaddvars.wisperaddvars"
    /\ IF cur.date.year \notin {2016, 2017, 2018}
       THEN Raise("KeyError") /\ UNCHANGED merged_pd
       ELSE IF ~mergefiles[cur.date].exists
       THEN Raise("FileNotFoundError") /\ UNCHANGED merged_pd
       ELSE /\ merged_pd' =
                 LET nc == mergefiles[cur.date].cols
                     n == Len(cur.mergevarkeys_nc)
                     new == {cur.mergevarkeys_return[k] : k \in 1..n}
                     old(c) == cur.mergevarkeys_nc[
                                  CHOOSE k \in 1..n :
                                     /\ cur.mergevarkeys_return[k] = c
                                     /\ \A j \in (k + 1)..n :
                                           cur.mergevarkeys_return[j] # c]
                 IN [c \in {"Start_UTC"} \cup new |->
                       IF c \in new THEN nc[old(c)] ELSE nc.Start_UTC]
            /\ pc' = "return"
            /\ UNCHANGED err
    /\ UNCHANGED <<ret, wisper_addvars>>
    /\ AddvarsUnchanged

\* wisperaddvars.py line 67: `wisper_new` is not a name of the function or of the
\* module, so the return statement raises NameError.
wisperaddvars2_return ==
    /\ pc = "return" /\ cur.fn = "wisperaddvars.wisperaddvars"
    /\ Raise("NameError")
    /\ UNCHANGED <<ret, merged_pd, wisper_addvars>>
    /\ AddvarsUnchanged

Next ==
    \/ pic2_cal16_params
    \/ pic2_cal16_for
    \/ pic2_cal16_load
    \/ pic2_cal16_qdepD
    \/ pic2_cal16_qdep18O
    \/ pic2_cal16_absD
    \/ pic2_cal16_abs18O
    \/ pic2_cal16_absq
    \/ pic2_cal16_save
    \/ pic2_cal1718_tables
    \/ pic2_cal1718_for
    \/ pic2_cal1718_load
    \/ pic2_cal1718_h2o
    \/ pic2_cal1718_dD
    \/ pic2_cal1718_d18O
    \/ pic2_cal1718_plots
    \/ pic2_cal1718_save
    \/ call_q_dep_cal
    \/ call_pic1_isoratio_fullcal
    \/ call_xcal
    \/ call_get_calparams
    \/ wisper_uncertainties_MC
    \/ mc_normalsampler_trial
    \/ mc_normalsampler_return
    \/ call_fit_poly
    \/ call_wisper_sig_formula
    \/ pic1_uncertainties_params
    \/ sigma_with_fit_dD
    \/ wisper_read
    \/ wisper_select
    \/ wisper_convert
    \/ wisper_return
    \/ wisperdata_read
    \/ wisperdata_select
    \/ wisperdata_convert
    \/ wisperdata_return
    \/ wisperaddvars_wisperdata
    \/ wisperaddvars_merged
    \/ wisperaddvars_merge
    \/ wisperaddvars_return
    \/ wisperaddvars2_merged
    \/ wisperaddvars2_return

Spec == Init /\ [][Next]_vars

(***************************************************************************)
(* Properties.                                                             *)
(***************************************************************************)
\* The value pandas holds for a cell of the file: missing for the flag -9999.
Norm(x) == IF x = Fin(-9999) THEN NaN ELSE x
RawCell(d, c, i) == Norm(files[d].cols[c][i])
Rows == 1..NRows
In16 == cur.fn = "pic2_cal16"
In1718 == cur.fn = "pic2_cal1718"

\* a * (ln(50000) - ln(q))^b
CorrectionTerm(q, a, b) == Mul(a, Pow(Sub(Ln(Fin(50000)), Ln(q)), b))
\* m * (d - a * (ln(50000) - ln(q))^b) + k
FullCalFormula(d, q, a, b, m, k) == Add(Mul(m, Sub(d, CorrectionTerm(q, a, b))), k)
\* The two steps in the other order: (m * d + k) - a * (ln(50000) - ln(q))^b
SwappedFormula(d, q, a, b, m, k) == Sub(Add(Mul(m, d), k), CorrectionTerm(q, a, b))

FullD(i) == FullCalFormula(RawCell(date, "dD_tot2", i), RawCell(date, "h2o_tot2", i),
                           env.aD, env.bD, env.mD, env.kD)
Full18O(i) == FullCalFormula(RawCell(date, "d18O_tot2", i), RawCell(date, "h2o_tot2", i),
                             env.a18O, env.b18O, env.m18O, env.k18O)
QdepD(i) == Sub(RawCell(date, "dD_tot2", i),
                CorrectionTerm(RawCell(date, "h2o_tot2", i), env.aD, env.bD))
Qdep18O(i) == Sub(RawCell(date, "d18O_tot2", i),
                  CorrectionTerm(RawCell(date, "h2o_tot2", i), env.a18O, env.b18O))

\* C1: the full isotope calibration is the humidity-dependence correction first and
\* the absolute calibration second. In pic2_cal16, after the two correction
\* statements dD and d18O hold d - a*(ln(50000)-ln(q))^b of the loaded row, after the
\* two calibration statements (and in the file written) they hold
\* m*(d - a*(ln(50000)-ln(q))^b) + k; pic1_isoratio_fullcal returns the same
\* expression of its arguments.
C1_FullCalOrder ==
    /\ (In16 /\ pc \in {"qdep18O", "absD"}) =>
          \A i \in Rows : data.dD_tot2[i] = QdepD(i)
    /\ (In16 /\ pc \in {"absD", "abs18O"}) =>
          \A i \in Rows : data.d18O_tot2[i] = Qdep18O(i)
    /\ (In16 /\ pc \in {"abs18O", "absq", "save16"}) =>
          \A i \in Rows : data.dD_tot2[i] = FullD(i)
    /\ (In16 /\ pc \in {"absq", "save16"}) =>
          \A i \in Rows : data.d18O_tot2[i] = Full18O(i)
    /\ (In16 /\ pc = "for16" /\ di >= 1) =>
          \A i \in Rows : /\ out[date].cols.dD_tot2[i] = FullD(i)
                          /\ out[date].cols.d18O_tot2[i] = Full18O(i)
    /\ (pc = "exit" /\ cur.fn = "pic1_isoratio_fullcal") =>
          ret = FullCalFormula(cur.d, cur.q, cur.calparams[1], cur.calparams[2],
                               cur.calparams[3], cur.calparams[4])

\* C1 witness: a flight has been calibrated and written, and on one of its rows the
\* swapped order would have given another finite value.
C1_Witness ==
    /\ In16 /\ pc = "for16" /\ di >= 1
    /\ \E i \in Rows :
          /\ IsFin(out[date].cols.dD_tot2[i])
          /\ out[date].cols.dD_tot2[i] # SwappedFormula(
                RawCell(date, "dD_tot2", i), RawCell(date, "h2o_tot2", i),
                env.aD, env.bD, env.mD, env.kD)

UnitCallDone(f) == pc = "exit" /\ cur.fn = f

\* C2 as stated: with b = 0 and q > 0, q_dep_cal returns exactly d, whatever a is.
C2_Original ==
    (UnitCallDone("q_dep_cal") /\ cur.b = <<0, 1>> /\ IsFin(cur.q) /\ cur.q.v > 0) =>
        ret = cur.d

\* C2 amended: with b = 0 and q > 0 the correction is a * x^0 = a, so q_dep_cal
\* returns d - a; that is d exactly when a = 0 (or when d itself is missing).
C2_ZeroExponent ==
    (UnitCallDone("q_dep_cal") /\ cur.b = <<0, 1>> /\ IsFin(cur.q) /\ cur.q.v > 0) =>
        /\ ret = Sub(cur.d, cur.a)
        /\ (ret = cur.d) <=> (cur.a = Fin(0) \/ IsNaN(cur.d))

\* C2 witness: q_dep_cal has returned for b = 0, q > 0, a finite d and a # 0.
C2_Witness ==
    /\ UnitCallDone("q_dep_cal") /\ cur.b = <<0, 1>>
    /\ IsFin(cur.q) /\ cur.q.v > 0 /\ IsFin(cur.d) /\ cur.a # Fin(0)

\* The inverse steps in reverse order: subtract the intercept k, divide by the
\* slope m, add back a*(ln(50000)-ln(q))^b.
Inverse(y, q, a, b, m, k) ==
    LET x == Sub(y, k)
    IN Add(IF IsFin(x) /\ m.v # 0 THEN Fin(x.v \div m.v) ELSE NaN, CorrectionTerm(q, a, b))

InRange(q) == IsFin(q) /\ 0 < q.v /\ q.v < 50000

\* C3: for a present d, 0 < q < 50000 and m # 0, the inverse steps applied to the
\* fully calibrated value give d back: for pic1_isoratio_fullcal with any
\* parameters, and for the dD and d18O columns pic2_cal16 writes.
C3_RoundTrip ==
    /\ (UnitCallDone("pic1_isoratio_fullcal") /\ IsFin(cur.d) /\ InRange(cur.q)
            /\ cur.calparams[3] # Fin(0)) =>
          Inverse(ret, cur.q, cur.calparams[1], cur.calparams[2],
                  cur.calparams[3], cur.calparams[4]) = cur.d
    /\ (In16 /\ pc = "for16" /\ di >= 1) =>
          \A i \in Rows :
             InRange(RawCell(date, "h2o_tot2", i)) =>
                /\ IsFin(RawCell(date, "dD_tot2", i)) =>
                      Inverse(out[date].cols.dD_tot2[i], RawCell(date, "h2o_tot2", i),
                              env.aD, env.bD, env.mD, env.kD)
                      = RawCell(date, "dD_tot2", i)
                /\ IsFin(RawCell(date, "d18O_tot2", i)) =>
                      Inverse(out[date].cols.d18O_tot2[i], RawCell(date, "h2o_tot2", i),
                              env.a18O, env.b18O, env.m18O, env.k18O)
                      = RawCell(date, "d18O_tot2", i)

\* C3 witness: pic1_isoratio_fullcal has returned for a present d, a humidity below
\* 50000, a non-zero correction with a non-integer exponent and a slope other than
\* 0 and 1.
C3_Witness ==
    /\ UnitCallDone("pic1_isoratio_fullcal") /\ IsFin(cur.d) /\ InRange(cur.q)
    /\ cur.calparams[1] # Fin(0) /\ cur.calparams[2] = <<3, 2>>
    /\ cur.calparams[3] = Fin(-1)
    /\ CorrectionTerm(cur.q, cur.calparams[1], cur.calparams[2]) # Fin(0)

RawCol(d, c) == [i \in Rows |-> RawCell(d, c, i)]

RECURSIVE SumRows(_, _, _)
SumRows(s, lo, hi) == IF lo > hi THEN 0 ELSE s[lo].v + SumRows(s, lo + 1, hi)

\* Rows are numbered from 1: sample i of the claim is row i + 1. The smoothed value
\* the claim gives for row r: missing for r <= 9, else the mean of rows r-9..r
\* (missing when one of them is missing).
MeanOfTen(s, r) ==
    IF r <= 9 \/ \E j \in (r - 9)..r : IsNaN(s[j]) THEN NaN
    ELSE Fin(SumRows(s, r - 9, r) \div 10)

\* C4: the isotope channel enters the cross-calibration smoothed with window 10:
\* each corrected isotope value is the cross-calibration polynomial of the row's log
\* humidity and of MeanOfTen of the loaded column, so rows 1..9 are missing; and
\* with testplots the four smoothed isotope columns of the frame are MeanOfTen of
\* the loaded columns.
C4_MovingAverage ==
    /\ (In1718 /\ pc \in {"xcal18O", "plots", "save1718"}) =>
          \A r \in Rows :
             /\ dD_corrected[r] =
                   xcal_dD(Ln(RawCell(date, "h2o_tot2", r)),
                           MeanOfTen(RawCol(date, "dD_tot2"), r), params_dD[cur.year])
             /\ r <= 9 => IsNaN(dD_corrected[r])
    /\ (In1718 /\ pc \in {"plots", "save1718"}) =>
          \A r \in Rows :
             /\ d18O_corrected[r] =
                   xcal_d18O(Ln(RawCell(date, "h2o_tot2", r)),
                             MeanOfTen(RawCol(date, "d18O_tot2"), r),
                             params_d18O[cur.year])
             /\ r <= 9 => IsNaN(d18O_corrected[r])
    /\ (In1718 /\ pc = "save1718" /\ cur.testplots) =>
          \A r \in Rows :
             \A c \in {"dD_tot1", "dD_tot2", "d18O_tot1", "d18O_tot2"} :
                data[c][r] = MeanOfTen(RawCol(date, c), r)

\* C4 witness: both isotope channels have been corrected for a flight with a missing
\* dD value in row 1: row 9 is missing, row 10 (whose window holds row 1) too, and
\* the last row is present.
C4_Witness ==
    /\ In1718 /\ pc = "plots"
    /\ IsNaN(RawCell(date, "dD_tot2", 1))
    /\ IsNaN(dD_corrected[9]) /\ IsNaN(dD_corrected[10]) /\ IsFin(dD_corrected[NRows])
    /\ IsFin(d18O_corrected[10])

Channels == {"h2o_tot2", "dD_tot2", "d18O_tot2"}
Isotopes == {"dD_tot2", "d18O_tot2"}
Written == {d \in DOMAIN out : out[d].exists}
OutCell(d, c, i) == out[d].cols[c][i]
Path16 == calls[1].fn = "pic2_cal16"
Path1718 == calls[1].fn = "pic2_cal1718"
\* The inputs of channel c at row i: the channel's loaded value and the loaded humidity.
InputMissing(d, c, i) == IsNaN(RawCell(d, c, i)) \/ IsNaN(RawCell(d, "h2o_tot2", i))

NoFlag(frame) ==
    \A c \in DOMAIN frame : \A i \in 1..Len(frame[c]) : frame[c][i] # Fin(Sentinel)
PathLevel3 == calls[1].fn \in Level3

\* The calibration paths hold no flag value when their first formula is evaluated.
C5_Calibration ==
    ((Path16 \/ Path1718) /\ pc \in {"qdepD", "xcalq"}) => NoFlag(data)

\* C5 as stated: in every loading path no cell of the loaded frame holds the flag
\* -9999 when a computation reads it: the first calibration formula of pic2_cal16
\* and pic2_cal1718, and in the level-3 loaders the gap filling, which reads the
\* Pic1 columns, and the conversion to g/kg, which reads the humidity column.
C5_Original ==
    /\ C5_Calibration
    /\ (PathLevel3 /\ pc = "select" /\ cur.date.year \in {2017, 2018}) =>
          NoFlag(Select(wisper, {"h2o_tot1", "dD_tot1", "d18O_tot1"}))
    /\ (PathLevel3 /\ pc = "convert") =>
          \A i \in Rows : wisper_new.h2o_gkg[i] # Fin(Sentinel)

\* C6 as stated: in both paths, the written value of a calibrated channel at row i
\* is missing exactly when an input of that row is missing.
C6_Original ==
    (Path16 \/ Path1718) =>
       \A d \in Written : \A i \in Rows : \A c \in Channels :
          IsNaN(OutCell(d, c, i)) <=> InputMissing(d, c, i)

\* C6 amended: a missing input at row i always gives a missing output at row i.
\* In the 2016 path, for rows whose humidity is missing or inside the formula's
\* domain (0 < q < 50000), and for the humidity channel of the 2017/2018 path, the
\* output of row i is missing exactly when an input of row i is missing. In the
\* 2017/2018 path, for rows whose humidity is missing or positive, an isotope output
\* at row r (from 1) is missing exactly when r <= 9, or the humidity of row r is
\* missing, or one of the loaded isotope values of rows r-9..r is missing.
C6_MissingFlow ==
    (Path16 \/ Path1718) =>
       \A d \in Written : \A i \in Rows :
          LET q == RawCell(d, "h2o_tot2", i) IN
          /\ \A c \in Channels : InputMissing(d, c, i) => IsNaN(OutCell(d, c, i))
          /\ (Path16 /\ (IsNaN(q) \/ InRange(q))) =>
                \A c \in Channels :
                   IsNaN(OutCell(d, c, i)) <=> InputMissing(d, c, i)
          /\ Path1718 => (IsNaN(OutCell(d, "h2o_tot2", i)) <=> IsNaN(q))
          /\ (Path1718 /\ (IsNaN(q) \/ (IsFin(q) /\ q.v > 0))) =>
                \A c \in Isotopes :
                   IsNaN(OutCell(d, c, i)) <=>
                      \/ i <= 9
                      \/ IsNaN(q)
                      \/ \E j \in (i - 9)..i : IsNaN(RawCell(d, c, j))

\* C6 witness: a 2017/2018 flight is written whose dD is missing in row 1 only: row
\* 10 has its own inputs and is missing, the last row is present.
C6_Witness ==
    /\ Path1718
    /\ \E d \in Written :
          /\ IsNaN(RawCell(d, "dD_tot2", 1))
          /\ ~InputMissing(d, "dD_tot2", 10) /\ IsNaN(OutCell(d, "dD_tot2", 10))
          /\ IsFin(OutCell(d, "dD_tot2", NRows))

\* C7 as stated: after the humidity-dependence correction of pic2_cal16, every row
\* whose humidity is missing or q <= 0 (q = 0 included) holds not-a-number, and
\* every other row holds the correction of its own loaded values.
C7_Original ==
    (In16 /\ pc = "qdep18O") =>
       \A i \in Rows :
          LET q == RawCell(date, "h2o_tot2", i) IN
          IF IsNaN(q) \/ q.v <= 0
          THEN IsNaN(data.dD_tot2[i])
          ELSE data.dD_tot2[i] = QdepD(i)

AllHumMissing(d) == \A i \in Rows : files[d].cols.h2o_tot2[i] = Fin(Sentinel)
BadConfig(c) ==
    \/ c.fn = "pic2_cal16" /\ c.pic \notin {"Mako", "Gulper"}
    \/ c.fn = "pic2_cal1718" /\ c.year \notin {2017, 2018}

\* C8: a flight whose humidity is missing in every row does not make the run fail
\* (the run ends in an exception at that flight only for a missing parameter set),
\* the run that ends normally has written it, and every row of h2o_tot2, dD_tot2
\* and d18O_tot2 written for it is missing, in the 2016 and the 2017/2018 path.
C8_AllMissingHumidity ==
    (Path16 \/ Path1718) =>
       /\ \A d \in Written :
             AllHumMissing(d) =>
                \A i \in Rows : \A c \in Channels : IsNaN(OutCell(d, c, i))
       /\ (pc = "raised" /\ files[date].exists /\ AllHumMissing(date)) => BadConfig(cur)
       /\ pc = "exit" =>
             \A d \in DOMAIN files :
                (files[d].exists /\ AllHumMissing(d)) => d \in Written

\* C8 witness: a 2017/2018 run has ended normally and has written a flight whose
\* humidity column was missing in every row.
C8_Witness ==
    /\ Path1718 /\ pc = "exit"
    /\ \E d \in Written : AllHumMissing(d)

\* C9 as stated: a call with an unknown instrument (pic2_cal16) or a year the
\* parameter table lacks (pic2_cal1718) never ends normally, writes no file and
\* never reaches a statement that calibrates a channel.
C9_Original ==
    BadConfig(cur) =>
       /\ pc # "exit"
       /\ Written = {}
       /\ pc \notin {"qdep18O", "absD", "abs18O", "absq", "save16",
                     "xcalD", "xcal18O", "plots", "save1718"}

\* C10 as stated: when the run is over, every date of the list whose input file
\* exists has been calibrated and written, whatever happened to the other dates.
C10_Original ==
    ((Path16 \/ Path1718) /\ pc \in {"exit", "raised"}
        /\ \A k \in 1..Len(calls) : ~BadConfig(calls[k])) =>
       \A d \in DOMAIN files : files[d].exists => d \in Written

Pipeline == (Path16 \/ Path1718) /\ ~Rerun
CallOf(d) ==
    CHOOSE k \in 1..Len(calls) : \E j \in 1..Len(calls[k].dates) : calls[k].dates[j] = d
Loaded(d) == replace(files[d].cols)

\* What pic2_cal16 writes in the three channels for a loaded frame and a parameter set.
Expected16(cols, P) ==
    [h2o_tot2 |-> [i \in Rows |-> Add(Mul(P.mq, cols.h2o_tot2[i]), P.kq)],
     dD_tot2 |-> [i \in Rows |-> FullCalFormula(cols.dD_tot2[i], cols.h2o_tot2[i],
                                                P.aD, P.bD, P.mD, P.kD)],
     d18O_tot2 |-> [i \in Rows |-> FullCalFormula(cols.d18O_tot2[i], cols.h2o_tot2[i],
                                                  P.a18O, P.b18O, P.m18O, P.k18O)]]

\* What pic2_cal1718 writes in the three channels for a loaded frame and a year.
Expected1718(cols, y) ==
    [h2o_tot2 |-> [i \in Rows |-> xcal_h2o(cols.h2o_tot2[i], params_h2o[y])],
     dD_tot2 |-> [i \in Rows |-> xcal_dD(Ln(cols.h2o_tot2[i]),
                                         RollingMean(cols.dD_tot2)[i], params_dD[y])],
     d18O_tot2 |-> [i \in Rows |-> xcal_d18O(Ln(cols.h2o_tot2[i]),
                                             RollingMean(cols.d18O_tot2)[i],
                                             params_d18O[y])]]

Expected(d) ==
    LET c == calls[CallOf(d)] IN
    IF c.fn = "pic2_cal16" THEN Expected16(Loaded(d), Params16(c.pic))
    ELSE Expected1718(Loaded(d), c.year)

\* C11 as stated, for the place of the parameter selection: the parameter set of a
\* flight is selected after the flight is loaded, so none is selected when the load
\* of pic2_cal16 is about to run.
C11_Original ==
    (Pipeline /\ In16 /\ pc = "load16") => ~env.bound

C11_Inv ==
    Pipeline =>
       /\ (pc \notin {"call"}) =>
             \A j \in 1..Len(cur.dates) :
                cur.dates[j] \in Written <=>
                   (j < di \/ (j = di /\ pc \in {"for16", "for1718", "exit"}))
       /\ \A k \in 1..Len(calls) : \A j \in 1..Len(calls[k].dates) :
             /\ k < ci => calls[k].dates[j] \in Written
             /\ k > ci => calls[k].dates[j] \notin Written
       /\ pc \in {"load16", "qdepD"} => env = Params16(cur.pic)
       /\ pc \in {"qdepD", "xcalq"} => data = Loaded(date)
       /\ \A d \in Written : \A c \in Channels : out[d].cols[c] = Expected(d)[c]

C11_Step ==
    out' # out =>
       /\ pc \in {"save16", "save1718"} /\ pc' \in {"for16", "for1718"}
       /\ \A d \in DOMAIN out : d # date => out'[d] = out[d]
       /\ di' = di /\ ci' = ci /\ files' = files

\* C11 amended: in pic2_cal16 the parameter set is selected once, before the first
\* flight is loaded, and is the same at every load (in pic2_cal1718 the row of the
\* year is looked up after the load). For every flight date the steps are Load with
\* the flag normalised, Apply to the three channels, Persist: the first formula
\* reads the frame just loaded from that date's file; an output file is written
\* only by the save statement of its own date, with the three channels corrected;
\* the dates before the current one are written and the later ones are not, so the
\* persist of date k precedes the load of date k+1; and what is written for a date
\* is a function of that date's file and the parameter set alone.
C11_Sequential == []C11_Inv /\ [][C11_Step]_vars

\* C11 witness: the script has ended: two Mako flights and the Gulper flight are
\* written.
C11_Witness ==
    /\ Len(calls) = 2 /\ pc = "exit"
    /\ \A k \in 1..2 : \A j \in 1..Len(calls[k].dates) : calls[k].dates[j] \in Written
    /\ Len(calls[1].dates) = 2

Untouched == {"Start_UTC", "h2o_tot1", "dD_tot1", "d18O_tot1"}

\* C12 as stated: for every flight and every option setting, the written record has
\* the rows of the loaded record in the same order, and Start_UTC and the Pic1
\* columns h2o_tot1, dD_tot1 and d18O_tot1 are written as they were loaded.
C12_Original ==
    (Path16 \/ Path1718) =>
       \A d \in Written : \A c \in Untouched :
          /\ Len(out[d].cols[c]) = Len(files[d].cols[c])
          /\ out[d].cols[c] = Loaded(d)[c]

\* C13 as stated, for the independence of the channels: an isotope output does not
\* depend on another channel, so two rows of a flight of pic2_cal16 with the same
\* loaded isotope value are written with the same calibrated value.
C13_Original ==
    Path16 =>
       \A d \in Written : \A c \in Isotopes : \A i, j \in Rows :
          RawCell(d, c, i) = RawCell(d, c, j) => OutCell(d, c, i) = OutCell(d, c, j)

\* C13 amended: in pic2_cal16 each isotope channel gets the humidity-dependence
\* correction followed by the absolute calibration, with its own parameters and the
\* loaded humidity of the same row (the isotope columns are final while the
\* humidity column still holds the loaded values); the humidity channel gets the
\* absolute calibration mq * q + kq alone.
C13_Channels ==
    Path16 =>
       /\ pc = "absq" =>
             \A i \in Rows :
                /\ data.h2o_tot2[i] = RawCell(date, "h2o_tot2", i)
                /\ data.dD_tot2[i] = FullD(i)
                /\ data.d18O_tot2[i] = Full18O(i)
       /\ \A d \in Written : \A i \in Rows :
             LET P == Params16(calls[CallOf(d)].pic)
                 q == RawCell(d, "h2o_tot2", i)
             IN /\ OutCell(d, "h2o_tot2", i) = Add(Mul(P.mq, q), P.kq)
                /\ OutCell(d, "dD_tot2", i) =
                      Add(Mul(P.mD, Sub(RawCell(d, "dD_tot2", i),
                                        CorrectionTerm(q, P.aD, P.bD))), P.kD)
                /\ OutCell(d, "d18O_tot2", i) =
                      Add(Mul(P.m18O, Sub(RawCell(d, "d18O_tot2", i),
                                          CorrectionTerm(q, P.a18O, P.b18O))), P.k18O)

\* C13 witness: a flight of pic2_cal16 is written whose three channels are finite
\* in row 1, the humidity changed by its calibration and the dD by its correction.
C13_Witness ==
    /\ Path16
    /\ \E d \in Written :
          /\ \A c \in Channels : IsFin(OutCell(d, c, 1))
          /\ OutCell(d, "h2o_tot2", 1) # RawCell(d, "h2o_tot2", 1)
          /\ CorrectionTerm(RawCell(d, "h2o_tot2", 1), MakoParams.aD, MakoParams.bD)
                # Fin(0)

\* The record the save statement is about to write.
ToBeWritten ==
    IF In16 THEN File(to_csv(data))
    ELSE File(to_csv([data EXCEPT !.h2o_tot2 = h2o_corrected,
                                  !.dD_tot2 = dD_corrected,
                                  !.d18O_tot2 = d18O_corrected]))

C14_Inv ==
    (Rerun /\ ci = 2) =>
       /\ pc \in {"qdepD", "xcalq"} => data = Loaded(date)
       /\ pc \in {"save16", "save1718"} => ToBeWritten = out[date]
       /\ pc = "exit" => \A d \in Written : \A c \in Channels : out[d].cols[c] = Expected(d)[c]

\* C14: when the same call is made a second time on the same input files, the input
\* files are as the first run found them, the second run computes on the frame
\* loaded from the input file, and the record it is about to write for a date is
\* the record the first run wrote for that date: the output is a function of the
\* input record and the instrument or year.
C14_Deterministic == []C14_Inv /\ [][files' = files]_vars

\* C14 witness: the second run of pic2_cal1718 on a flight has ended and the flight
\* is written.
C14_Witness ==
    /\ Rerun /\ ci = 2 /\ pc = "exit" /\ Path1718
    /\ \E d \in Written : \E i \in Rows : IsFin(OutCell(d, "dD_tot2", i))

MCDone == pc = "exit" /\ cur.fn = "wisper_uncertainties_MC"
NoSpread == cur.sig_calparams = Zeros4 /\ cur.sig_d = None

\* C15: when wisper_uncertainties_MC is called with every parameter sigma 0 and
\* sig_d = None, every realization of a grid point is the calibration function at
\* the mean parameters and the given inputs, and the returned standard deviation
\* is 0 at every grid point where that value is finite.
C15_ZeroSigma ==
    (MCDone /\ NoSpread) =>
       \A i \in 1..Len(cur.d) :
          LET f == pic1_isoratio_fullcal(cur.d[i], cur.q[i], cur.calparams) IN
          /\ \A t \in 1..NTrials : trials[t][i] = f
          /\ IsFin(f) => ret[2][i] = Fin(0)

\* C15 witness: such a call has returned; the value is finite at the first grid
\* point, where the standard deviation is 0, and is not finite at the last.
C15_Witness ==
    /\ MCDone /\ NoSpread
    /\ IsFin(trials[1][1]) /\ ret[2][1] = Fin(0)
    /\ ~IsFin(trials[1][3])

LoaderDone == pc = "exit" /\ cur.fn \in Level3
FileCell(c, i) == files[cur.date].cols[c][i]

\* The value the level-3 product should hold for a vapour variable at row i: for
\* 2016 the Pic2 value, else the Pic1 value when it is present in the file and the
\* Pic2 value of the same row otherwise.
Chosen(k1, i) ==
    IF cur.date.year = 2016 THEN FileCell(Pic2Key(k1), i)
    ELSE IF ~IsNaN(Norm(FileCell(k1, i))) THEN FileCell(k1, i)
    ELSE FileCell(Pic2Key(k1), i)

\* C16 as stated: in the frame a level-3 loader returns, dD_permil and d18O_permil
\* hold at every row the chosen value (a missing one in either representation),
\* and h2o_gkg holds the chosen humidity converted to g/kg.
C16_Original ==
    LoaderDone =>
       \A i \in Rows :
          /\ Norm(ret.dD_permil[i]) = Norm(Chosen("dD_tot1", i))
          /\ Norm(ret.d18O_permil[i]) = Norm(Chosen("d18O_tot1", i))
          /\ ret.h2o_gkg[i] \in {ppmv_to_gkg(<<Chosen("h2o_tot1", i)>>)[1],
                                 ppmv_to_gkg(<<Norm(Chosen("h2o_tot1", i))>>)[1]}

AddvarsCall ==
    /\ cur.fn \in Addvars
    /\ cur.date.year \in {2016, 2017, 2018}
    /\ files[cur.date].exists /\ mergefiles[cur.date].exists

\* The returned frame is the inner join on Start_UTC of the flight's WISPER record
\* and the merge file: one row for each time that is in both, in the order of the
\* WISPER record, with the WISPER values and the ancillary values of that time.
IsInnerJoin(frame) ==
    LET W == files[cur.date].cols
        M == mergefiles[cur.date].cols
        both == {W.Start_UTC[i] : i \in 1..Len(W.Start_UTC)}
                \cap {M.Start_UTC[j] : j \in 1..Len(M.Start_UTC)}
        n == Len(frame.Start_UTC)
    IN /\ n = Cardinality(both)
       /\ {frame.Start_UTC[r] : r \in 1..n} = both
       /\ \A r \in 1..(n - 1) : frame.Start_UTC[r].v < frame.Start_UTC[r + 1].v
       /\ \A r \in 1..n :
             /\ \E i \in Rows :
                   /\ W.Start_UTC[i] = frame.Start_UTC[r]
                   /\ frame.dD_permil[r] = Norm(Chosen("dD_tot1", i))
                   /\ frame.d18O_permil[r] = Norm(Chosen("d18O_tot1", i))
                   /\ frame.h2o_gkg[r] = ppmv_to_gkg(<<Norm(Chosen("h2o_tot1", i))>>)[1]
             /\ \E j \in 1..Len(M.Start_UTC) :
                   /\ M.Start_UTC[j] = frame.Start_UTC[r]
                   /\ frame.lat[r] = M.Latitude[j]
                   /\ frame.P_hPa[r] = M.Static_Pressure[j]

\* C17 as stated: a call of wisperaddvars, of getdata.py or of wisperaddvars.py, on
\* a flight whose WISPER file and merge file exist raises nothing, and the frame it
\* returns is the inner join on Start_UTC.
C17_Original ==
    AddvarsCall => /\ pc # "raised"
                   /\ pc = "exit" => IsInnerJoin(ret)

\* The coefficients as lines 180-186 and 189-203 write them, the fudge factor left
\* out.
MakoCoefficients ==
    [aD |-> Fin(-2), bD |-> <<7, 2>>, a18O |-> Fin(-1), b18O |-> <<9, 2>>,
     mD |-> Fin(2), kD |-> Fin(-6), m18O |-> Fin(3), k18O |-> Fin(-1),
     mq |-> Fin(5), kq |-> Fin(0)]
GulperCoefficients ==
    [aD |-> Fin(1), bD |-> <<9, 2>>, a18O |-> Fin(2), b18O |-> <<3, 2>>,
     mD |-> Fin(3), kD |-> Fin(-75 - 3 * (-94)), m18O |-> Fin(2),
     k18O |-> Fin(-12 - 2 * (-17)), mq |-> Fin(7), kq |-> Fin(0)]
CoefficientNames == DOMAIN MakoCoefficients

\* C18: once pic2_cal16 has selected its parameters, for 'Mako' k18O is its coded
\* value plus the fudge factor and every other coefficient is its coded value, and
\* for 'Gulper' every coefficient is its coded value. In a written Mako flight the
\* d18O of a row is the calibration with the coded k18O, plus the fudge factor,
\* and the dD and the humidity are the calibrations with the coded coefficients.
C18_FudgeFactor ==
    /\ (In16 /\ pc # "call" /\ env.bound) =>
          \A f \in CoefficientNames :
             env[f] = IF cur.pic = "Gulper" THEN GulperCoefficients[f]
                      ELSE IF f = "k18O" THEN Add(MakoCoefficients[f], Fin(ff))
                      ELSE MakoCoefficients[f]
    /\ Path16 =>
          \A d \in Written : \A i \in Rows :
             LET pic == calls[CallOf(d)].pic
                 C == IF pic = "Mako" THEN MakoCoefficients ELSE GulperCoefficients
                 q == RawCell(d, "h2o_tot2", i)
                 coded18O == FullCalFormula(RawCell(d, "d18O_tot2", i), q,
                                            C.a18O, C.b18O, C.m18O, C.k18O)
             IN /\ OutCell(d, "d18O_tot2", i) =
                      IF pic = "Mako" THEN Add(coded18O, Fin(ff)) ELSE coded18O
                /\ OutCell(d, "dD_tot2", i) =
                      FullCalFormula(RawCell(d, "dD_tot2", i), q, C.aD, C.bD, C.mD, C.kD)
                /\ OutCell(d, "h2o_tot2", i) = Add(Mul(C.mq, q), C.kq)

\* C18 witness: the script has written a Mako flight and the Gulper flight, both
\* with a finite d18O in row 2.
C18_Witness ==
    /\ Path16 /\ Len(calls) = 2 /\ pc = "exit" /\ ff # 0
    /\ \E d1, d2 \in Written :
          /\ calls[CallOf(d1)].pic = "Mako" /\ calls[CallOf(d2)].pic = "Gulper"
          /\ IsFin(OutCell(d1, "d18O_tot2", 2)) /\ IsFin(OutCell(d2, "d18O_tot2", 2))

\* c3*logQ^3 + c2*logQ^2 + c1*logQ + d1*delta + d2*delta^2 + d3*delta^3
\* + x1*(delta*logQ) + x2*(delta*logQ)^2 + x3*(delta*logQ)^3 + const
Cube(x) == Mul(x, Mul(x, x))
TenTerms(l, d, c) ==
    <<Mul(c[1], Cube(l)), Mul(c[2], Mul(l, l)), Mul(c[3], l),
      Mul(c[4], d), Mul(c[5], Mul(d, d)), Mul(c[6], Cube(d)),
      Mul(c[7], Mul(d, l)), Mul(c[8], Mul(Mul(d, l), Mul(d, l))),
      Mul(c[9], Cube(Mul(d, l))), c[10]>>
RECURSIVE SumLeft(_)
SumLeft(ts) ==
    IF Len(ts) = 1 THEN ts[1]
    ELSE Add(SumLeft(SubSeq(ts, 1, Len(ts) - 1)), ts[Len(ts)])

\* C19: for every logQ, delta and coefficient vector, xcal_d18O and xcal_dD called
\* with the same coefficient values under their own key names return the same
\* value, the ten-term polynomial.
C19_SamePolynomial ==
    UnitCallDone("xcal") =>
       /\ ret[1] = ret[2]
       /\ ret[2] = SumLeft(TenTerms(cur.logq, cur.delta, cur.c))

\* C19 witness: the two functions have returned a finite value for a delta whose
\* cube has a non-zero coefficient.
C19_Witness ==
    /\ UnitCallDone("xcal")
    /\ IsFin(ret[2]) /\ cur.c[6] # Fin(0) /\ cur.delta # Fin(0)

\* C20 as stated: the two records get_calparams returns are parallel: the mean
\* record holds a, b, slope and intercept of the isotope, and entries 1 and 2 of
\* the standard-deviation record are the standard deviations the table gives for
\* the a and the b of that isotope, entry 4 is sig_absoffset.
C20_Original ==
    UnitCallDone("get_calparams") =>
       /\ Len(ret[1]) = 4 /\ Len(ret[2]) = 4
       /\ ret[1][1] = cur.pars_qdep_16["a" \o cur.iso]
       /\ ret[1][2] = cur.pars_qdep_16["b" \o cur.iso]
       /\ ret[2][1] = cur.pars_qdep_16["sig_a" \o cur.iso]
       /\ ret[2][2] = cur.pars_qdep_16["sig_b" \o cur.iso]
       /\ ret[2][4] = cur.sig_absoffset

(***************************************************************************)
(* The humidity read by the isotope corrections.                           *)
(***************************************************************************)
\* C23: within one flight every isotope correction reads the humidity as loaded.
\* In pic2_cal16 the column h2o_tot2 is the loaded one at every statement up to its
\* absolute calibration, the two humidity-dependence corrections are those of the
\* loaded isotope values at the loaded humidity, and the humidity is overwritten
\* only after both. In pic2_cal1718 the frame is the loaded record while the three
\* corrected channels are computed, each of them is computed from the loaded
\* record, and the column h2o_tot2 is the loaded one until the save statement.
C23_RawHumidity ==
    LET L == Loaded(date)
        P == Params16(cur.pic)
        y == cur.year
        QdepOf(c, a, b) ==
            [i \in Rows |-> q_dep_cal(L[c][i], L.h2o_tot2[i], a, b)]
    IN
    /\ (Path16 /\ pc \in {"qdepD", "qdep18O", "absD", "abs18O", "absq"}) =>
          /\ data.h2o_tot2 = L.h2o_tot2
          /\ pc = "qdep18O" => /\ data.dD_tot2 = QdepOf("dD_tot2", P.aD, P.bD)
                               /\ data.d18O_tot2 = L.d18O_tot2
          /\ pc = "absD" => /\ data.dD_tot2 = QdepOf("dD_tot2", P.aD, P.bD)
                            /\ data.d18O_tot2 = QdepOf("d18O_tot2", P.a18O, P.b18O)
    /\ (Path16 /\ pc = "save16") =>
          data.h2o_tot2 = [i \in Rows |-> abscal_line(L.h2o_tot2[i], P.mq, P.kq)]
    /\ (Path1718 /\ pc \in {"xcalq", "xcalD", "xcal18O", "plots"}) => data = L
    /\ (Path1718 /\ pc \in {"xcalD", "xcal18O", "plots", "save1718"}) =>
          /\ data.h2o_tot2 = L.h2o_tot2
          /\ h2o_corrected = Expected1718(L, y).h2o_tot2
          /\ pc # "xcalD" => dD_corrected = Expected1718(L, y).dD_tot2
          /\ pc \in {"plots", "save1718"} =>
                d18O_corrected = Expected1718(L, y).d18O_tot2

\* C23 witness: a Mako flight whose humidity and isotope values are all present is
\* about to have its humidity calibrated, both humidity-dependence corrections done,
\* and the calibration changes the humidity.
C23_Witness ==
    /\ Path16 /\ pc = "absq" /\ cur.pic = "Mako"
    /\ \A i \in Rows : IsFin(data.h2o_tot2[i]) /\ IsFin(data.dD_tot2[i])
    /\ \E i \in Rows : abscal_line(data.h2o_tot2[i], env.mq, env.kq) # data.h2o_tot2[i]

(***************************************************************************)
(* The surrogate fit and the surrogate lookup.                             *)
(***************************************************************************)
\* The value at (q, d) of the term of the six-term model a predictor names.
Term(name, q, d) ==
    IF name = "const" THEN Fin(1)
    ELSE IF name = "logq" THEN Ln(q)
    ELSE IF name = "logq^2" THEN Pow(Ln(q), <<2, 1>>)
    ELSE IF name = "logq^3" THEN Pow(Ln(q), <<3, 1>>)
    ELSE IF name = "logq^4" THEN Pow(Ln(q), <<4, 1>>)
    ELSE d

\* The prediction at (q, d) of the model fitted by fit_poly: each coefficient
\* times the term its predictor names.
Predict(params, q, d) ==
    Dot(params, [k \in 1..6 |-> Term(predictorvars[k], q, d)])

SixTerms(pars, q, d) ==
    Dot(pars, <<Fin(1), Ln(q), Pow(Ln(q), <<2, 1>>), Pow(Ln(q), <<3, 1>>),
                Pow(Ln(q), <<4, 1>>), d>>)

LookupQ == {FitQ[i] : i \in 1..Len(FitQ)} \cup {Fin(1500), Fin(0), NaN}
LookupD == {FitD[i] : i \in 1..Len(FitD)} \cup {Fin(-70), Fin(0), NaN}

FitDone == calls[1].fn = "fit_poly" /\ pc = "exit"

\* C22: fit_poly returns exactly 6 coefficients in the order const, ln q, (ln q)^2,
\* (ln q)^3, (ln q)^4, delta; wisper_sig_formula(q, d, pars) is pars[0] + pars[1] ln q
\* + pars[2] (ln q)^2 + pars[3] (ln q)^3 + pars[4] (ln q)^4 + pars[5] d; and the
\* formula applied to the coefficients fit_poly returns is the prediction of the
\* fitted model at every (q, d), which on a surface that is a six-term model is
\* the surface itself at every point that is not missing.
C22_FitLookup ==
    /\ FitDone =>
          /\ Len(ret) = 6
          /\ predictorvars = <<"const", "logq", "logq^2", "logq^3", "logq^4", "d">>
          /\ \A q \in LookupQ : \A d \in LookupD :
                wisper_sig_formula(q, d, ret) = Predict(ret, q, d)
          /\ \A i \in 1..Len(cur.args[1]) :
                ~IsNaN(cur.args[3][i]) =>
                   wisper_sig_formula(cur.args[1][i], cur.args[2][i], ret)
                      = cur.args[3][i]
    /\ (calls[1].fn = "wisper_sig_formula" /\ pc = "exit") =>
          ret = SixTerms(cur.args[3], cur.args[1], cur.args[2])

\* C22 witness: a fit of a surface with one point missing has returned coefficients
\* whose weights on ln q and on delta differ, both different from 0.
C22_Witness ==
    /\ FitDone
    /\ \E i \in 1..Len(cur.args[3]) : IsNaN(cur.args[3][i])
    /\ ret[2] # ret[6] /\ ret[2] # Fin(0) /\ ret[6] # Fin(0)

(***************************************************************************)
(* The three uncertainty use-cases.                                        *)
(***************************************************************************)
UseCases == {"sigWISP1_D", "sigWISP2_D", "sigWISP3_D"}

\* C21 as stated, for the use-cases of dD: when pic1_uncertainties ends, the three
\* use-cases have been fitted from Monte Carlo runs, so the locals sigWISP1_D,
\* sigWISP2_D and sigWISP3_D are bound and no exception has ended the run.
C21_Original ==
    (calls[1].fn = "pic1_uncertainties" /\ pc \in {"exit", "raised"}) =>
       /\ err = "none"
       /\ UseCases \subseteq DOMAIN env

====
